---- MODULE Spec2Model ----
(***************************************************************************)
(* A model of grudge's operator layer (grudge/op.py):                      *)
(*   - the distributed trace-pair exchange (cross_rank_trace_pairs,        *)
(*     _RankBoundaryCommunication) over a non-blocking point-to-point      *)
(*     communication layer,                                                *)
(*   - the reference-element matrix cache (keyed_memoize_in on the array   *)
(*     context),                                                           *)
(*   - the elementwise operator application layer (mass, inverse_mass,     *)
(*     face_mass).                                                         *)
(***************************************************************************)
EXTENDS Integers, Sequences, FiniteSets, TLC

VARIABLES
    \* ---- distributed trace-pair exchange ----
    calls,      \* the calls cross_rank_trace_pairs(ary, tag) every rank makes, in order
    connected,  \* connected[r]: the memoized connected_ranks(dcoll) of rank r, in iteration order
    pc,         \* pc[r]: where rank r stands in cross_rank_trace_pairs
    round,      \* round[r]: index in calls of the call rank r is in (or has last returned from)
    ivec,       \* ivec[r]: loop variable of the object-array branch
    rbcomms,    \* rbcomms[r]: the _RankBoundaryCommunication objects of the current scalar exchange
    fin,        \* fin[r]: index of the rbcomm whose finish() is running
    tpairs,     \* tpairs[r]: trace pairs returned so far by the current scalar exchange
    result,     \* result[r]: the dict 'result' of the object-array branch
    ret,        \* ret[r]: the value returned by the last call of rank r
    sendq,      \* sendq[s][d]: messages sent by s to d and not yet matched, oldest first
    recvq,      \* recvq[d][s]: receives posted by d for s and not yet matched, oldest first
    issued,     \* history: every Isend/Irecv issued, with its call and its tag
    \* ---- reference-element matrix cache of one array context ----
    memo,       \* memo[identifier]: the cache_dict of keyed_memoize_in(actx, identifier, key)
    stack,      \* stack[c]: the call stack of consumer c, innermost call last
    nreq,       \* nreq[c]: requests consumer c has made
    outcome,    \* outcome[c]: how the last request of consumer c ended
    created,    \* history: every matrix a computation has produced
    served,     \* history: every matrix a reference_*_matrix call has returned, with its key
    failures,   \* history: every call a failed computation has unwound
    \* ---- elementwise operator application ----
    ncalls,     \* operator applications made so far
    lastApply,  \* the last operator application: its arguments and how it ended
    normMemo,   \* the (p, dd) for which _norm(dcoll, p, dd) is memoized on dcoll
    \* ---- symbolic operator processing ----
    sexpr,      \* the expression (and type map) a mapper is applied to
    sresult     \* how the application of the mapper ended

commVars == <<calls, connected, pc, round, ivec, rbcomms, fin, tpairs, result, ret,
              sendq, recvq, issued>>

cacheVars == <<memo, stack, nreq, outcome, created, served, failures>>

opVars == <<ncalls, lastApply, normMemo>>

symVars == <<sexpr, sresult>>

vars == <<commVars, cacheVars, opVars, symVars>>

nonCommVars == <<cacheVars, opVars, symVars>>
nonCacheVars == <<commVars, opVars, symVars>>

-----------------------------------------------------------------------------
(* Bounds of the model *)

NumRanks == 2
MaxRounds == 2
MaxComps == 2
MaxTag == 1
MaxRequests == 3
MaxConcRequests == 1
NumConsumers == 2
MaxGroups == 2
MaxApplies == 1
MaxDim == 2
MaxNormCalls == 2
MaxFactors == 3
MaxOperands == 2
MaxTerms == 3

Ranks == 0 .. (NumRanks - 1)

-----------------------------------------------------------------------------
(* Values *)

\* Python's None for the tag argument; a given tag t is <<t>>.
NoTag == <<>>
GivenTags == {<<t>> : t \in 0 .. MaxTag}
TagArgs == {NoTag} \cup GivenTags

\* A plain number (numbers.Number).
Num(v) == [t |-> "num", v |-> v]

\* The number passed as (the component comp of) the argument of call k.
NumberOf(k, comp) == Num(10 * k + comp)

\* Field data living on a boundary discretization: the part of volume field
\* fld owned by rank src, restricted to the boundary src shares with rank to,
\* in a given memory layout.
BdryData(src, to, fld, layout) ==
    [t |-> "dof", src |-> src, to |-> to, fld |-> fld, layout |-> layout]

\* The content of np.empty_like(local_data) before anything was received.
Uninitialized == BdryData(-1, -1, <<>>, "uninit")

\* An object array: its shape and its entries in C order.
ObjArray(shape, data) == [t |-> "arr", shape |-> shape, data |-> data]

RECURSIVE Prod(_)
Prod(s) == IF s = <<>> THEN 1 ELSE Head(s) * Prod(Tail(s))

TracePair(dd, interior, exterior) == [dd |-> dd, int |-> interior, ext |-> exterior]

-----------------------------------------------------------------------------
(* Pure helpers of the exchange *)

\* project(dcoll, "vol", BTAG_PARTITION(q), vol_field) on rank r
project(r, q, fld) == BdryData(r, q, fld, "dof")

\* meshmode.dof_array.flatten followed by to_numpy
flatten(d) == [d EXCEPT !.layout = IF d.layout = "dof" THEN "flat" ELSE "garbage"]

\* meshmode.dof_array.unflatten of the received host buffer: the result is
\* structured like the boundary discretization, in the remote ordering
unflatten(buf) == [buf EXCEPT !.layout = IF buf.layout = "flat" THEN "remote" ELSE "garbage"]

\* the distributed boundary-swap connection
bdry_conn(d) == [d EXCEPT !.layout = IF d.layout = "remote" THEN "swapped" ELSE "garbage"]

base_tag == 1273

\* _RankBoundaryCommunication.__init__: self.tag
CommTag(tag) == IF tag = NoTag THEN base_tag ELSE base_tag + tag[1]

\* The tag cross_rank_trace_pairs hands to _cross_rank_trace_pairs_scalar_field
ScalarFieldTag(call) == IF call.kind = "arr" THEN NoTag ELSE call.tag

\* The vec cross_rank_trace_pairs hands to _cross_rank_trace_pairs_scalar_field:
\* its kind, and the identity of the volume field
ScalarFieldKind(call, iv) == IF call.kind = "arr" THEN call.comps[iv + 1] ELSE call.kind
ScalarFieldComp(call, iv) == IF call.kind = "arr" THEN iv ELSE 0

-----------------------------------------------------------------------------
(* Inputs *)

Shapes == {<<n>> : n \in 0 .. MaxComps} \cup {<<1, MaxComps>>, <<MaxComps, 1>>}

\* Entries of an object array: all fields, or a number followed by fields.
CompsOf(n) == {[i \in 1 .. n |-> "dof"]} \cup
              (IF n > 0 THEN {[i \in 1 .. n |-> IF i = 1 THEN "num" ELSE "dof"]} ELSE {})

CallArgs ==
    {[kind |-> k, shape |-> <<>>, comps |-> <<>>, tag |-> tg] :
        k \in {"num", "dof"}, tg \in TagArgs}
    \cup
    UNION {{[kind |-> "arr", shape |-> s, comps |-> c, tag |-> tg] :
                c \in CompsOf(Prod(s)), tg \in TagArgs} : s \in Shapes}

RECURSIVE SeqsUpTo(_, _)
SeqsUpTo(S, n) ==
    IF n = 0 THEN {<<>>}
    ELSE LET shorter == SeqsUpTo(S, n - 1)
         IN  shorter \cup {Append(q, x) : q \in {p \in shorter : Len(p) = n - 1}, x \in S}

\* The partitions of the mesh form a line: rank r touches r-1 and r+1.
Neighbours(r) == {q \in Ranks : q = r - 1 \/ q = r + 1}

RECURSIVE Orders(_)
Orders(S) == IF S = {} THEN {<<>>}
             ELSE UNION {{<<x>> \o o : o \in Orders(S \ {x})} : x \in S}

-----------------------------------------------------------------------------
(* The distributed trace-pair exchange *)

\* No rank is inside cross_rank_trace_pairs and nothing is in flight.
CommIdle ==
    /\ pc = [r \in Ranks |-> "idle"]
    /\ round = [r \in Ranks |-> 0]
    /\ ivec = [r \in Ranks |-> 0]
    /\ rbcomms = [r \in Ranks |-> <<>>]
    /\ fin = [r \in Ranks |-> 0]
    /\ tpairs = [r \in Ranks |-> <<>>]
    /\ result = [r \in Ranks |-> <<>>]
    /\ ret = [r \in Ranks |-> [round |-> 0, value |-> <<>>]]
    /\ sendq = [s \in Ranks |-> [d \in Ranks |-> <<>>]]
    /\ recvq = [d \in Ranks |-> [s \in Ranks |-> <<>>]]
    /\ issued = {}

\* The state before any rank has called cross_rank_trace_pairs; every rank
\* makes the calls of one of the sequences callSeqs.
CommStart(callSeqs) ==
    /\ calls \in callSeqs
    /\ connected \in {f \in [Ranks -> UNION {Orders(Neighbours(r)) : r \in Ranks}] :
                        \A r \in Ranks : f[r] \in Orders(Neighbours(r))}
    /\ CommIdle

\* Every rank makes one call.
CommInit == CommStart({<<c>> : c \in CallArgs})

\* Every rank makes up to MaxRounds calls, one after the other.
CommRoundsInit == CommStart({cs \in SeqsUpTo(CallArgs, MaxRounds) : Len(cs) >= 1})

\* Assemble with the exterior of every entry taken from component 0.
Assemble_FirstComponent(r, call, res) ==
    LET n == Len(call.comps)
    IN  [j \in 1 .. Len(connected[r]) |->
            TracePair(connected[r][j],
                      ObjArray(call.shape, [i \in 1 .. n |-> res[<<connected[r][j], i - 1>>].int]),
                      ObjArray(call.shape, [i \in 1 .. n |-> res[<<connected[r][j], 0>>].ext]))]

\* The list comprehension at the end of cross_rank_trace_pairs' array branch.
Assemble(r, call, res) ==
    LET n == Len(call.comps)
    IN  [j \in 1 .. Len(connected[r]) |->
            TracePair(connected[r][j],
                      ObjArray(call.shape, [i \in 1 .. n |-> res[<<connected[r][j], i - 1>>].int]),
                      ObjArray(call.shape, [i \in 1 .. n |-> res[<<connected[r][j], i - 1>>].ext]))]

\* result[rank_tpair.dd.domain_tag.tag.part_nr, ivec] = rank_tpair, for each pair
StoreResult(res, tps, iv) ==
    LET newkeys == {<<tps[j].dd, iv>> : j \in 1 .. Len(tps)}
        last(key) == CHOOSE j \in 1 .. Len(tps) :
                        /\ <<tps[j].dd, iv>> = key
                        /\ \A j2 \in 1 .. Len(tps) : <<tps[j2].dd, iv>> = key => j2 <= j
    IN  [key \in (DOMAIN res) \cup newkeys |->
            IF key \in newkeys THEN tps[last(key)] ELSE res[key]]

\* cross_rank_trace_pairs(dcoll, ary, tag) is entered on rank r.
Call(r) ==
    /\ pc[r] = "idle"
    /\ round[r] < Len(calls)
    /\ LET k == round[r] + 1
           call == calls[k]
       IN  /\ round' = [round EXCEPT ![r] = k]
           /\ ivec' = [ivec EXCEPT ![r] = 0]
           /\ result' = [result EXCEPT ![r] = <<>>]
           /\ IF call.kind = "arr" /\ Len(call.comps) = 0
              THEN /\ ret' = [ret EXCEPT ![r] = [round |-> k, value |-> Assemble(r, call, <<>>)]]
                   /\ pc' = pc
              ELSE /\ pc' = [pc EXCEPT ![r] = "scalar"]
                   /\ ret' = ret
    /\ UNCHANGED <<nonCommVars, calls, connected, rbcomms, fin, tpairs, sendq, recvq, issued>>

\* ScalarField without the isinstance(vec, Number) branch.
ScalarField_NoShortCircuit(r) ==
    /\ pc[r] = "scalar"
    /\ tpairs' = [tpairs EXCEPT ![r] = <<>>]
    /\ pc' = [pc EXCEPT ![r] = IF connected[r] = <<>> THEN "scalar_done" ELSE "post"]
    /\ rbcomms' = [rbcomms EXCEPT ![r] = <<>>]
    /\ UNCHANGED <<nonCommVars, calls, connected, round, ivec, fin, result, ret, sendq, recvq, issued>>

\* _cross_rank_trace_pairs_scalar_field is entered: a number short-circuits,
\* anything else starts one _RankBoundaryCommunication per connected rank.
ScalarField(r) ==
    /\ pc[r] = "scalar"
    /\ LET call == calls[round[r]]
           kind == ScalarFieldKind(call, ivec[r])
           v == NumberOf(round[r], ScalarFieldComp(call, ivec[r]))
       IN  \/ /\ kind = "num"
              /\ tpairs' = [tpairs EXCEPT ![r] =
                              [j \in 1 .. Len(connected[r]) |-> TracePair(connected[r][j], v, v)]]
              /\ pc' = [pc EXCEPT ![r] = "scalar_done"]
           \/ /\ kind # "num"
              /\ tpairs' = [tpairs EXCEPT ![r] = <<>>]
              /\ pc' = [pc EXCEPT ![r] = IF connected[r] = <<>> THEN "scalar_done" ELSE "post"]
    /\ rbcomms' = [rbcomms EXCEPT ![r] = <<>>]
    /\ UNCHANGED <<nonCommVars, calls, connected, round, ivec, fin, result, ret, sendq, recvq, issued>>

\* Post with the receive posted for another tag than the send.
Post_ReceiveOtherTag(r) ==
    /\ pc[r] = "post"
    /\ \E buffered \in BOOLEAN :
       LET call == calls[round[r]]
           j == Len(rbcomms[r]) + 1
           q == connected[r][j]
           tag == CommTag(ScalarFieldTag(call))
           fld == <<round[r], ScalarFieldComp(call, ivec[r])>>
           local == project(r, q, fld)
           id == <<round[r], ivec[r], j>>
       IN  /\ rbcomms' = [rbcomms EXCEPT ![r] = Append(@,
                  [id |-> id, remote |-> q, tag |-> tag, local_dof_array |-> local,
                   sendDone |-> buffered, recvDone |-> FALSE,
                   remote_data_host |-> Uninitialized,
                   recvWaited |-> FALSE, built |-> FALSE,
                   swapped |-> Uninitialized, sendWaited |-> FALSE])]
           /\ sendq' = [sendq EXCEPT ![r][q] = Append(@,
                  [tag |-> tag, data |-> flatten(local), id |-> id])]
           /\ recvq' = [recvq EXCEPT ![r][q] = Append(@, [tag |-> tag + 1, idx |-> j])]
           /\ issued' = issued \cup
                  {[rank |-> r, round |-> round[r], op |-> o, peer |-> q, tag |-> tag] :
                      o \in {"Isend", "Irecv"}}
           /\ IF j = Len(connected[r])
              THEN /\ pc' = [pc EXCEPT ![r] = "recv_wait"]
                   /\ fin' = [fin EXCEPT ![r] = 1]
              ELSE UNCHANGED <<pc, fin>>
    /\ UNCHANGED <<nonCommVars, calls, connected, round, ivec, tpairs, result, ret>>

\* _RankBoundaryCommunication.__init__ for the next connected rank: project,
\* flatten, Isend, allocate the receive buffer, Irecv.  Nothing blocks.  The
\* communication layer either buffers the message (the send request is complete
\* at once) or completes the send request when the message is matched.
Post(r) ==
    /\ pc[r] = "post"
    /\ \E buffered \in BOOLEAN :
       LET call == calls[round[r]]
           j == Len(rbcomms[r]) + 1
           q == connected[r][j]
           tag == CommTag(ScalarFieldTag(call))
           fld == <<round[r], ScalarFieldComp(call, ivec[r])>>
           local == project(r, q, fld)
           id == <<round[r], ivec[r], j>>
       IN  /\ rbcomms' = [rbcomms EXCEPT ![r] = Append(@,
                  [id |-> id, remote |-> q, tag |-> tag, local_dof_array |-> local,
                   sendDone |-> buffered, recvDone |-> FALSE,
                   remote_data_host |-> Uninitialized,
                   recvWaited |-> FALSE, built |-> FALSE,
                   swapped |-> Uninitialized, sendWaited |-> FALSE])]
           /\ sendq' = [sendq EXCEPT ![r][q] = Append(@,
                  [tag |-> tag, data |-> flatten(local), id |-> id])]
           /\ recvq' = [recvq EXCEPT ![r][q] = Append(@, [tag |-> tag, idx |-> j])]
           /\ issued' = issued \cup
                  {[rank |-> r, round |-> round[r], op |-> o, peer |-> q, tag |-> tag] :
                      o \in {"Isend", "Irecv"}}
           /\ IF j = Len(connected[r])
              THEN /\ pc' = [pc EXCEPT ![r] = "recv_wait"]
                   /\ fin' = [fin EXCEPT ![r] = 1]
              ELSE UNCHANGED <<pc, fin>>
    /\ UNCHANGED <<nonCommVars, calls, connected, round, ivec, tpairs, result, ret>>

\* FinishRecvWait with a wait that returns although the receive has not completed.
FinishRecvWait_NoBlock(r) ==
    /\ pc[r] = "recv_wait"
    /\ rbcomms' = [rbcomms EXCEPT ![r][fin[r]].recvWaited = TRUE]
    /\ pc' = [pc EXCEPT ![r] = "reassemble"]
    /\ UNCHANGED <<nonCommVars, calls, connected, round, ivec, fin, tpairs, result, ret,
                   sendq, recvq, issued>>

\* finish(): self.recv_req.Wait() returns once the receive has completed.
FinishRecvWait(r) ==
    /\ pc[r] = "recv_wait"
    /\ rbcomms[r][fin[r]].recvDone
    /\ rbcomms' = [rbcomms EXCEPT ![r][fin[r]].recvWaited = TRUE]
    /\ pc' = [pc EXCEPT ![r] = "reassemble"]
    /\ UNCHANGED <<nonCommVars, calls, connected, round, ivec, fin, tpairs, result, ret,
                   sendq, recvq, issued>>

\* finish(): unflatten the host buffer and apply the boundary-swap connection.
FinishReassemble(r) ==
    /\ pc[r] = "reassemble"
    /\ LET c == rbcomms[r][fin[r]]
           remote_dof_array == unflatten(c.remote_data_host)
       IN  rbcomms' = [rbcomms EXCEPT ![r][fin[r]] =
                          [c EXCEPT !.built = TRUE,
                                    !.swapped = bdry_conn(remote_dof_array)]]
    /\ pc' = [pc EXCEPT ![r] = "send_wait"]
    /\ UNCHANGED <<nonCommVars, calls, connected, round, ivec, fin, tpairs, result, ret,
                   sendq, recvq, issued>>

\* finish(): self.send_req.Wait() returns once the send has completed; the
\* trace pair is returned and the next rbcomm's finish() starts.
FinishSendWait(r) ==
    /\ pc[r] = "send_wait"
    /\ rbcomms[r][fin[r]].sendDone
    /\ LET c == rbcomms[r][fin[r]]
       IN  tpairs' = [tpairs EXCEPT ![r] =
                         Append(@, TracePair(c.remote, c.local_dof_array, c.swapped))]
    /\ rbcomms' = [rbcomms EXCEPT ![r][fin[r]].sendWaited = TRUE]
    /\ IF fin[r] = Len(rbcomms[r])
       THEN /\ pc' = [pc EXCEPT ![r] = "scalar_done"]
            /\ fin' = fin
       ELSE /\ pc' = [pc EXCEPT ![r] = "recv_wait"]
            /\ fin' = [fin EXCEPT ![r] = @ + 1]
    /\ UNCHANGED <<nonCommVars, calls, connected, round, ivec, result, ret, sendq, recvq, issued>>

\* _cross_rank_trace_pairs_scalar_field returns to cross_rank_trace_pairs,
\* which returns the list, or stores it in 'result' and goes on with the next
\* component, or assembles the object arrays after the last one.
ScalarReturn(r) ==
    /\ pc[r] = "scalar_done"
    /\ LET call == calls[round[r]]
           res == StoreResult(result[r], tpairs[r], ivec[r])
       IN  IF call.kind = "arr"
           THEN /\ result' = [result EXCEPT ![r] = res]
                /\ IF ivec[r] + 1 < Len(call.comps)
                   THEN /\ ivec' = [ivec EXCEPT ![r] = @ + 1]
                        /\ pc' = [pc EXCEPT ![r] = "scalar"]
                        /\ ret' = ret
                   ELSE /\ ret' = [ret EXCEPT ![r] =
                                     [round |-> round[r], value |-> Assemble(r, call, res)]]
                        /\ pc' = [pc EXCEPT ![r] = "idle"]
                        /\ ivec' = ivec
           ELSE /\ ret' = [ret EXCEPT ![r] = [round |-> round[r], value |-> tpairs[r]]]
                /\ pc' = [pc EXCEPT ![r] = "idle"]
                /\ UNCHANGED <<ivec, result>>
    /\ rbcomms' = [rbcomms EXCEPT ![r] = <<>>]
    /\ tpairs' = [tpairs EXCEPT ![r] = <<>>]
    /\ fin' = [fin EXCEPT ![r] = 0]
    /\ UNCHANGED <<nonCommVars, calls, connected, round, sendq, recvq, issued>>

RemoveAt(q, i) == [k \in 1 .. (Len(q) - 1) |-> IF k < i THEN q[k] ELSE q[k + 1]]

\* The communication layer matches a message with a posted receive of the same
\* source, destination and tag; messages and receives are matched in the order
\* they were posted (non-overtaking).  Both requests complete.
Deliver(s, d) ==
    \E i \in 1 .. Len(sendq[s][d]), j \in 1 .. Len(recvq[d][s]) :
        LET m == sendq[s][d][i]
            p == recvq[d][s][j]
        IN  /\ m.tag = p.tag
            /\ \A i2 \in 1 .. (i - 1) : sendq[s][d][i2].tag # p.tag
            /\ \A j2 \in 1 .. (j - 1) : recvq[d][s][j2].tag # m.tag
            /\ sendq' = [sendq EXCEPT ![s][d] = RemoveAt(@, i)]
            /\ recvq' = [recvq EXCEPT ![d][s] = RemoveAt(@, j)]
            /\ rbcomms' = [r \in Ranks |->
                  [x \in 1 .. Len(rbcomms[r]) |->
                      LET c == rbcomms[r][x]
                          c1 == IF r = d /\ x = p.idx
                                THEN [c EXCEPT !.recvDone = TRUE, !.remote_data_host = m.data]
                                ELSE c
                      IN  IF r = s /\ c1.id = m.id THEN [c1 EXCEPT !.sendDone = TRUE] ELSE c1]]
            /\ UNCHANGED <<nonCommVars, calls, connected, pc, round, ivec, fin, tpairs, result, ret, issued>>

CommNext ==
    \/ \E r \in Ranks : Call(r)
    \/ \E r \in Ranks : ScalarField(r)
    \/ \E r \in Ranks : Post(r)
    \/ \E r \in Ranks : FinishRecvWait(r)
    \/ \E r \in Ranks : FinishReassemble(r)
    \/ \E r \in Ranks : FinishSendWait(r)
    \/ \E r \in Ranks : ScalarReturn(r)
    \/ \E s \in Ranks, d \in Ranks : Deliver(s, d)

\* No exchange is going on and none will be started.
CommQuiet ==
    /\ calls = <<>>
    /\ connected = [r \in Ranks |-> <<>>]
    /\ CommIdle

-----------------------------------------------------------------------------
(* The reference-element matrix cache *)

Consumers == 1 .. NumConsumers

\* The element groups requests are made with.  V1 and V2 are distinct group
\* objects of equal discretization_key(); VQ is a volume quadrature group; F1 is
\* the nodal face group of V1/V2, FQ and FQlow are face quadrature groups with
\* more nodes than the face space has dimensions; FQnodal is a face quadrature
\* group with as many nodes as the face space has dimensions.
ElementGroups == {"V1", "V2", "VQ", "F1", "FQ", "FQlow", "FQnodal"}

VolumeGroup(key, order, quadrature) ==
    [key |-> key, order |-> order, nelements |-> 2, nfaces |-> 3,
     quadrature |-> quadrature, exact_to |-> 2 * order, nodal |-> ~quadrature,
     nunit_dofs |-> ((order + 1) * (order + 2)) \div 2]

FaceGroup(key, order, quadrature, exact_to, nodal) ==
    [key |-> key, order |-> order, nelements |-> 6, nfaces |-> 2,
     quadrature |-> quadrature, exact_to |-> exact_to, nodal |-> nodal,
     nunit_dofs |-> IF nodal THEN order + 1 ELSE order + 2]

\* grp.discretization_key(), grp.order, grp.nelements, grp.mesh_el_group.nfaces,
\* isinstance(grp, QuadratureSimplexElementGroup), grp.quadrature_rule().exact_to,
\* isinstance(grp, ElementGroupWithBasis) and grp.space.space_dim == grp.nunit_dofs,
\* grp.nunit_dofs
GroupInfo(g) ==
    CASE g = "V1" -> VolumeGroup("vol_p2", 2, FALSE)
      [] g = "V2" -> VolumeGroup("vol_p2", 2, FALSE)
      [] g = "VQ" -> VolumeGroup("vol_q4", 4, TRUE)
      [] g = "F1" -> FaceGroup("face_p2", 2, FALSE, 4, TRUE)
      [] g = "FQ" -> FaceGroup("face_q4", 4, TRUE, 4, FALSE)
      [] g = "FQlow" -> FaceGroup("face_q5", 5, TRUE, 4, FALSE)
      [] g = "FQnodal" -> FaceGroup("face_q2", 2, TRUE, 3, TRUE)

discretization_key(g) == GroupInfo(g).key

Kinds == {"mass", "inverse_mass", "stiffness_transpose", "derivative", "face_mass"}

\* The identifier each reference_*_matrix function hands to keyed_memoize_in.
Identifier(fn) ==
    CASE fn = "derivative" -> "reference_derivative_matrices"
      [] fn = "stiffness_transpose" -> "reference_stiffness_transpose_matrix"
      [] fn = "mass" -> "reference_mass_matrix"
      [] fn = "inverse_mass" -> "reference_inverse_mass_matrix"
      [] fn = "face_mass" -> "reference_mass_matrix"

Identifiers == {Identifier(fn) : fn \in Kinds}

\* KeyOf with the group objects themselves as the key.
KeyOf_ByGroupObject(fn, args) == args

\* The key function each reference_*_matrix function hands to keyed_memoize_in.
KeyOf(fn, args) ==
    IF fn \in {"mass", "stiffness_transpose", "face_mass"}
    THEN <<discretization_key(args[1]), discretization_key(args[2])>>
    ELSE <<discretization_key(args[1])>>

\* The arguments requests are made with: (out_grp, in_grp), (grp) or (face_grp, vol_grp).
RequestArgs(fn) ==
    IF fn \in {"mass", "stiffness_transpose"}
    THEN {<<o, i>> : o \in {"V1", "V2"}, i \in {"V1", "V2", "VQ"}}
    ELSE IF fn = "face_mass"
    THEN {<<f, v>> : f \in {"F1", "FQ", "FQlow"}, v \in {"V1", "V2"}}
    ELSE {<<g>> : g \in {"V1", "V2"}}

Dtypes(fn) == IF fn = "face_mass" THEN {"float32", "float64"} ELSE {"none"}

\* A frozen matrix: what computed it, and which of the computations for its
\* key it was (two computations never yield the same object).
\* The shape of the array get_ref_face_mass_mat allocates; the shapes of the
\* other matrices are not modelled.
MatrixShape(fn, args) ==
    IF fn = "face_mass"
    THEN <<GroupInfo(args[2]).nunit_dofs, GroupInfo(args[2]).nfaces,
           GroupInfo(args[1]).nunit_dofs>>
    ELSE <<>>

Matrix(fn, args, dtype, n) ==
    [fn |-> fn, args |-> args, dtype |-> dtype, n |-> n, shape |-> MatrixShape(fn, args)]

NoMatrix == Matrix("none", <<>>, "none", 0)

Max(a, b) == IF a >= b THEN a ELSE b

\* FaceMassError without the exactness check of the nodal branch.
FaceMassError_NoNodalCheck(face, vol) ==
    LET f == GroupInfo(face)
        v == GroupInfo(vol)
    IN  IF f.nelements # v.nfaces * v.nelements THEN "AssertionError"
        ELSE IF f.quadrature /\ f.exact_to < f.order THEN "ValueError"
        ELSE "none"

\* The error get_ref_face_mass_mat raises for these groups, or "none": the
\* assertion on the element counts, then for the first face the exactness
\* checks of the face quadrature rule.
FaceMassError(face, vol) ==
    LET f == GroupInfo(face)
        v == GroupInfo(vol)
        n == v.order
        m == f.order
        face_exact_to == IF f.quadrature THEN f.exact_to ELSE 2 * Max(n, m)
    IN  IF f.nelements # v.nfaces * v.nelements THEN "AssertionError"
        ELSE IF f.quadrature /\ f.exact_to < m THEN "ValueError"
        ELSE IF f.nodal /\ face_exact_to < m + n THEN "ValueError"
        ELSE "none"

\* The computation raises whatever the collaborators (modepy, meshmode, the
\* array context) or its own checks do for these arguments.
Raises(fn, args) == fn = "face_mass" /\ FaceMassError(args[1], args[2]) # "none"

\* The exception a failed computation ends with: that of a collaborator, or
\* the one its own checks raise.
ErrorOf(fr, fails) ==
    IF fails THEN "Exception" ELSE FaceMassError(fr.args[1], fr.args[2])

\* A call of a reference_*_matrix function that has just been entered.
Frame(fn, args, dtype) ==
    [fn |-> fn, args |-> args, dtype |-> dtype, ph |-> "lookup", res |-> NoMatrix]

Top(c) == stack[c][Len(stack[c])]

Running == [status |-> "running", fn |-> "none", args |-> <<>>, obj |-> NoMatrix,
            hit |-> FALSE, unwound |-> {}, err |-> "none"]

CacheInit ==
    /\ memo = [id \in Identifiers |-> <<>>]
    /\ stack = [c \in Consumers |-> <<>>]
    /\ nreq = [c \in Consumers |-> 0]
    /\ outcome = [c \in Consumers |-> Running]
    /\ created = {}
    /\ served = {}
    /\ failures = {}

\* The stack once its innermost call has returned v: the caller goes on.  The
\* same-group branch of get_ref_stiffness_transpose_mat calls
\* reference_mass_matrix, then reference_derivative_matrices, then computes.
Resume(stk, v) ==
    LET rest == SubSeq(stk, 1, Len(stk) - 1)
    IN  IF rest = <<>> THEN <<>>
        ELSE LET caller == rest[Len(rest)]
             IN  IF caller.ph = "wait_mass"
                 THEN Append([rest EXCEPT ![Len(rest)].ph = "wait_derivative"],
                             Frame("derivative", <<caller.args[2]>>, "none"))
                 ELSE [rest EXCEPT ![Len(rest)].ph = "compute"]

\* The innermost call of consumer c returns v.
Return(c, v, hit) ==
    LET fr == Top(c)
    IN  /\ stack' = [stack EXCEPT ![c] = Resume(@, v)]
        /\ served' = served \cup {[fn |-> fr.fn, args |-> fr.args, obj |-> v]}
        /\ outcome' = IF Len(stack[c]) = 1
                      THEN [outcome EXCEPT ![c] =
                               [status |-> "returned", fn |-> fr.fn, args |-> fr.args,
                                obj |-> v, hit |-> hit, unwound |-> {}, err |-> "none"]]
                      ELSE outcome

\* A consumer calls one of the reference_*_matrix functions.
Request(c, bound) ==
    /\ stack[c] = <<>>
    /\ nreq[c] < bound
    /\ \E fn \in Kinds : \E args \in RequestArgs(fn), dtype \in Dtypes(fn) :
          stack' = [stack EXCEPT ![c] = <<Frame(fn, args, dtype)>>]
    /\ nreq' = [nreq EXCEPT ![c] = @ + 1]
    /\ outcome' = [outcome EXCEPT ![c] = Running]
    /\ UNCHANGED <<nonCacheVars, memo, created, served, failures>>

\* keyed_memoize_in's wrapper: return self.cache_dict[key], or on KeyError go
\* on to call the wrapped function.
Lookup(c) ==
    /\ stack[c] # <<>>
    /\ Top(c).ph = "lookup"
    /\ LET fr == Top(c)
           id == Identifier(fr.fn)
           key == KeyOf(fr.fn, fr.args)
       IN  IF key \in DOMAIN memo[id]
           THEN Return(c, memo[id][key], TRUE)
           ELSE /\ stack' = [stack EXCEPT ![c] =
                      IF fr.fn = "stiffness_transpose" /\ fr.args[1] = fr.args[2]
                      THEN Append([@ EXCEPT ![Len(@)].ph = "wait_mass"],
                                  Frame("mass", fr.args, "none"))
                      ELSE [@ EXCEPT ![Len(@)].ph = "compute"]]
                /\ UNCHANGED <<outcome, served>>
    /\ UNCHANGED <<nonCacheVars, memo, nreq, created, failures>>

\* The calls on the stack stk, as (function, arguments) pairs.
Unwound(stk) == {[fn |-> stk[i].fn, args |-> stk[i].args] : i \in 1 .. Len(stk)}

\* The exception of a failed computation leaves every call on the stack of
\* consumer c, none of which catches it, and reaches the consumer.
Propagate(c, err) ==
    /\ stack' = [stack EXCEPT ![c] = <<>>]
    /\ outcome' = [outcome EXCEPT ![c] =
          [status |-> "raised", fn |-> stack[c][1].fn, args |-> stack[c][1].args,
           obj |-> NoMatrix, hit |-> FALSE, unwound |-> Unwound(stack[c]), err |-> err]]
    /\ failures' = failures \cup Unwound(stack[c])

\* The matrix a computation for the call fr yields: a new object each time.
Fresh(fr) ==
    LET key == KeyOf(fr.fn, fr.args)
        n == Cardinality({o \in created : o.fn = fr.fn /\ KeyOf(o.fn, o.args) = key})
    IN  Matrix(fr.fn, fr.args, fr.dtype, n + 1)

\* Compute with a failed computation leaving an entry for its key behind.
Compute_CachesFailure(c) ==
    /\ stack[c] # <<>>
    /\ Top(c).ph = "compute"
    /\ LET fr == Top(c)
       IN  \E fails \in BOOLEAN :
              IF fails \/ Raises(fr.fn, fr.args)
              THEN /\ Propagate(c, ErrorOf(fr, fails))
                   /\ memo' = [memo EXCEPT ![Identifier(fr.fn)] =
                                  (KeyOf(fr.fn, fr.args) :> NoMatrix) @@ @]
                   /\ UNCHANGED created
              ELSE /\ stack' = [stack EXCEPT ![c][Len(stack[c])] =
                                   [fr EXCEPT !.ph = "store", !.res = Fresh(fr)]]
                   /\ created' = created \cup {Fresh(fr)}
                   /\ UNCHANGED <<outcome, failures, memo>>
    /\ UNCHANGED <<nonCacheVars, nreq, served>>

\* The wrapped function computes the matrix and freezes it, or raises: nothing
\* is stored and the exception propagates.
Compute(c) ==
    /\ stack[c] # <<>>
    /\ Top(c).ph = "compute"
    /\ LET fr == Top(c)
       IN  \E fails \in BOOLEAN :
              IF fails \/ Raises(fr.fn, fr.args)
              THEN /\ Propagate(c, ErrorOf(fr, fails))
                   /\ UNCHANGED created
              ELSE /\ stack' = [stack EXCEPT ![c][Len(stack[c])] =
                                   [fr EXCEPT !.ph = "store", !.res = Fresh(fr)]]
                   /\ created' = created \cup {Fresh(fr)}
                   /\ UNCHANGED <<outcome, failures>>
    /\ UNCHANGED <<nonCacheVars, memo, nreq, served>>

\* keyed_memoize_in's wrapper: self.cache_dict[key] = result; return result.
Store(c) ==
    /\ stack[c] # <<>>
    /\ Top(c).ph = "store"
    /\ LET fr == Top(c)
           id == Identifier(fr.fn)
           key == KeyOf(fr.fn, fr.args)
       IN  /\ memo' = [memo EXCEPT ![id] = (key :> fr.res) @@ @]
           /\ Return(c, fr.res, FALSE)
    /\ UNCHANGED <<nonCacheVars, nreq, created, failures>>

\* The face groups reference_face_mass_matrix is requested with.
FaceRequestArgs == {<<f, v>> : f \in {"F1", "FQ", "FQlow", "FQnodal"}, v \in {"V1", "V2"}}

\* A consumer calls reference_face_mass_matrix.
RequestFaceMass(c) ==
    /\ stack[c] = <<>>
    /\ nreq[c] < MaxRequests
    /\ \E args \in FaceRequestArgs, dtype \in Dtypes("face_mass") :
          stack' = [stack EXCEPT ![c] = <<Frame("face_mass", args, dtype)>>]
    /\ nreq' = [nreq EXCEPT ![c] = @ + 1]
    /\ outcome' = [outcome EXCEPT ![c] = Running]
    /\ UNCHANGED <<nonCacheVars, memo, created, served, failures>>

\* The requests of one caller at a time.
CacheNext ==
    \/ Request(1, MaxRequests)
    \/ Lookup(1)
    \/ Compute(1)
    \/ Store(1)

\* The face mass requests of one caller at a time.
FaceMassNext ==
    \/ RequestFaceMass(1)
    \/ Lookup(1)
    \/ Compute(1)
    \/ Store(1)

\* The requests of concurrent consumers, interleaved.
CacheConcNext ==
    \/ \E c \in Consumers : Request(c, MaxConcRequests)
    \/ \E c \in Consumers : Lookup(c)
    \/ \E c \in Consumers : Compute(c)
    \/ \E c \in Consumers : Store(c)

-----------------------------------------------------------------------------
(* Elementwise operator application: mass, inverse_mass, face_mass *)

DD_VOLUME == "vol"

\* The descriptors mass, _apply_inverse_mass_operator and face_mass are applied with.
MassDDs == {"vol", "vol_quad"}
InverseMassDDs == {"vol", "all_faces"}
FaceMassDDs == {"all_faces", "all_faces_quad", "all_faces_quadlow"}

\* A discretization collection: its number of element groups and, for each,
\* grp.is_affine.
Dcolls == [affine : UNION {[1 .. n -> BOOLEAN] : n \in 1 .. MaxGroups}]

NumGroups(dc) == Len(dc.affine)

\* dcoll.discr_from_dd(dd).groups[i - 1]: the volume groups are distinct objects
\* of equal discretization_key().
GroupAt(dd, i) ==
    CASE dd = "vol" -> IF i % 2 = 1 THEN "V1" ELSE "V2"
      [] dd = "vol_quad" -> "VQ"
      [] dd = "all_faces" -> "F1"
      [] dd = "all_faces_quad" -> "FQ"
      [] dd = "all_faces_quadlow" -> "FQlow"

\* A DOFArray argument.
DOFArray(name, dtype) == [t |-> "dof", name |-> name, entry_dtype |-> dtype]

\* The arguments the operators are applied to: a DOFArray, a number, or an
\* object array of these.
OpLeaves == {DOFArray("u", "float64"), DOFArray("v", "float32"), Num(3)}

OpEntries == {DOFArray("u", "float64"), Num(3)}

OpShapes == {<<n>> : n \in 1 .. MaxComps} \cup {<<1, MaxComps>>}

OpVecs == OpLeaves \cup
          UNION {{ObjArray(shape, data) : data \in [1 .. Prod(shape) -> OpEntries]} :
                    shape \in OpShapes}

\* area_element(actx, dcoll, dd)[i - 1], its reciprocal, and vec[i - 1]
AreaElement(dd, i) == [k |-> "area_element", of |-> dd, grp |-> i]
InvAreaElement(dd, i) == [k |-> "inv_area_element", of |-> dd, grp |-> i]
VecGroup(vec, i) == [k |-> "vec", of |-> vec.name, grp |-> i]

\* actx.einsum(spec, *args), and the face_mass kernel called with (mat, jac_surf, vec)
Einsum(spec, args) == [spec |-> spec, args |-> args]

\* The DOFArray an operator returns, and the absence of a returned value.
DOFResult(data) == [t |-> "dof_result", data |-> data]
NoValue == [t |-> "none"]

\* The cache of the array context, as the applications read and update it.
CacheState == [memo |-> memo, created |-> created, served |-> served,
               failures |-> failures]

\* A reference_*_matrix call finds its key in the cache.
FetchHit(cs, fn, args, obj) ==
    [cs |-> [cs EXCEPT !.served = @ \cup {[fn |-> fn, args |-> args, obj |-> obj]}],
     obj |-> obj, err |-> "none"]

\* The computation of a reference_*_matrix call raises: nothing is stored.
FetchFailed(cs, fn, args) ==
    [cs |-> [cs EXCEPT !.failures = @ \cup {[fn |-> fn, args |-> args]}],
     obj |-> NoMatrix, err |-> FaceMassError(args[1], args[2])]

\* The computation of a reference_*_matrix call yields obj, which is stored.
FetchComputed(cs, fn, args, id, key, obj) ==
    [cs |-> [memo |-> [cs.memo EXCEPT ![id] = (key :> obj) @@ @],
             created |-> cs.created \cup {obj},
             served |-> cs.served \cup {[fn |-> fn, args |-> args, obj |-> obj]},
             failures |-> cs.failures],
     obj |-> obj, err |-> "none"]

FetchKeyed(cs, fn, args, dtype, id, key) ==
    IF key \in DOMAIN cs.memo[id] THEN FetchHit(cs, fn, args, cs.memo[id][key])
    ELSE IF Raises(fn, args) THEN FetchFailed(cs, fn, args)
    ELSE FetchComputed(cs, fn, args, id, key,
             Matrix(fn, args, dtype,
                    1 + Cardinality({o \in cs.created :
                                        o.fn = fn /\ KeyOf(o.fn, o.args) = key})))

\* One call of a reference_*_matrix function against the cache cs: a hit, a
\* failed computation, or a computation whose result is stored.
Fetch(cs, fn, args, dtype) ==
    FetchKeyed(cs, fn, args, dtype, Identifier(fn), KeyOf(fn, args))

\* How an application ends: the cache it leaves, what it fetched in order,
\* the exception it raised or "none", and the value it returned.
Raised(cs, log, err) == [cs |-> cs, log |-> log, raised |-> err, value |-> NoValue]
Returns(cs, log, value) == [cs |-> cs, log |-> log, raised |-> "none", value |-> value]

FetchedDiscr(dd) == <<"discr", dd>>
FetchedAreaElement(dd) == <<"area_element", dd>>
FetchedMatrix(fn, args) == <<"matrix", fn, args>>

RECURSIVE MassGroups(_, _, _, _, _, _)

\* One round of the loop of _apply_mass_operator, f being what
\* reference_mass_matrix(actx, out_grp, in_grp) returned.
MassGroup(st, dc, dd_out, dd_in, vec, i, f) ==
    MassGroups([cs |-> f.cs,
                log |-> Append(st.log, FetchedMatrix("mass",
                                          <<GroupAt(dd_out, i), GroupAt(dd_in, i)>>)),
                data |-> Append(st.data,
                            Einsum("ij,ej,ej->ei",
                                   <<f.obj, AreaElement(dd_in, i), VecGroup(vec, i)>>))],
               dc, dd_out, dd_in, vec, i + 1)

\* The loop of _apply_mass_operator over zip(in_discr.groups, out_discr.groups,
\* area_elements, vec), from group i on.
MassGroups(st, dc, dd_out, dd_in, vec, i) ==
    IF i > NumGroups(dc) THEN Returns(st.cs, st.log, DOFResult(st.data))
    ELSE MassGroup(st, dc, dd_out, dd_in, vec, i,
                   Fetch(st.cs, "mass", <<GroupAt(dd_out, i), GroupAt(dd_in, i)>>, "none"))

\* _apply_mass_operator once both discretizations are fetched.
ApplyMassOperatorTo(cs, dc, dd_out, dd_in, vec, discrs) ==
    IF vec.t = "num" THEN Raised(cs, discrs, "AttributeError")
    ELSE MassGroups([cs |-> cs, log |-> Append(discrs, FetchedAreaElement(dd_in)),
                     data |-> <<>>],
                    dc, dd_out, dd_in, vec, 1)

ApplyMassOperator(cs, dc, dd_out, dd_in, vec) ==
    ApplyMassOperatorTo(cs, dc, dd_out, dd_in, vec,
                        <<FetchedDiscr(dd_in), FetchedDiscr(dd_out)>>)

\* use_wadg with 'not any' in place of 'not all'.
UseWadg_NoGroupAffine(dc) == \A i \in 1 .. NumGroups(dc) : ~dc.affine[i]

\* use_wadg = not all(grp.is_affine for grp in discr.groups)
UseWadg(dc) == ~(\A i \in 1 .. NumGroups(dc) : dc.affine[i])

RECURSIVE InverseMassGroups(_, _, _, _, _, _)

\* One round of the loop of the weight-adjusted branch, ref_mass and
\* ref_mass_inv being what reference_mass_matrix and then
\* reference_inverse_mass_matrix returned.
InverseMassGroupWadg(st, dc, dd, vec, i, ref_mass, ref_mass_inv) ==
    InverseMassGroups(
        [cs |-> ref_mass_inv.cs,
         log |-> st.log \o <<FetchedMatrix("mass", <<GroupAt(dd, i), GroupAt(dd, i)>>),
                             FetchedMatrix("inverse_mass", <<GroupAt(dd, i)>>)>>,
         data |-> Append(st.data,
                     Einsum("ik,km,em,mj,ej->ei",
                            <<ref_mass_inv.obj, ref_mass.obj, InvAreaElement(dd, i),
                              ref_mass_inv.obj, VecGroup(vec, i)>>))],
        dc, dd, vec, TRUE, i + 1)

InverseMassGroupWadgMass(st, dc, dd, vec, i, ref_mass) ==
    InverseMassGroupWadg(st, dc, dd, vec, i, ref_mass,
                         Fetch(ref_mass.cs, "inverse_mass", <<GroupAt(dd, i)>>, "none"))

\* One round of the loop of the affine branch, ref_mass_inv being what
\* reference_inverse_mass_matrix returned.
InverseMassGroupAffine(st, dc, dd, vec, i, ref_mass_inv) ==
    InverseMassGroups(
        [cs |-> ref_mass_inv.cs,
         log |-> Append(st.log, FetchedMatrix("inverse_mass", <<GroupAt(dd, i)>>)),
         data |-> Append(st.data,
                     Einsum("ij,ej,ej->ei",
                            <<ref_mass_inv.obj, InvAreaElement(dd, i), VecGroup(vec, i)>>))],
        dc, dd, vec, FALSE, i + 1)

\* The two loops of _apply_inverse_mass_operator over zip(discr.groups,
\* inv_area_elements, vec), from group i on.
InverseMassGroups(st, dc, dd, vec, use_wadg, i) ==
    IF i > NumGroups(dc) THEN Returns(st.cs, st.log, DOFResult(st.data))
    ELSE IF use_wadg
    THEN InverseMassGroupWadgMass(st, dc, dd, vec, i,
             Fetch(st.cs, "mass", <<GroupAt(dd, i), GroupAt(dd, i)>>, "none"))
    ELSE InverseMassGroupAffine(st, dc, dd, vec, i,
             Fetch(st.cs, "inverse_mass", <<GroupAt(dd, i)>>, "none"))

\* _apply_inverse_mass_operator once the discretization is fetched.
ApplyInverseMassOperatorTo(cs, dc, dd, vec, discr) ==
    IF vec.t = "num" THEN Raised(cs, discr, "AttributeError")
    ELSE InverseMassGroups([cs |-> cs, log |-> Append(discr, FetchedAreaElement(dd)),
                            data |-> <<>>],
                           dc, dd, vec, UseWadg(dc), 1)

\* _apply_inverse_mass_operator comparing the descriptors after it has fetched
\* the discretization.
ApplyInverseMassOperator_LateCheck(cs, dc, dd_out, dd_in, vec) ==
    IF dd_out # dd_in THEN Raised(cs, <<FetchedDiscr(dd_in)>>, "ValueError")
    ELSE ApplyInverseMassOperatorTo(cs, dc, dd_in, vec, <<FetchedDiscr(dd_in)>>)

ApplyInverseMassOperator(cs, dc, dd_out, dd_in, vec) ==
    IF dd_out # dd_in THEN Raised(cs, <<>>, "ValueError")
    ELSE ApplyInverseMassOperatorTo(cs, dc, dd_in, vec, <<FetchedDiscr(dd_in)>>)

RECURSIVE FaceMassGroups(_, _, _, _, _)

\* One round of the loop of _apply_face_mass_operator, f being how
\* reference_face_mass_matrix(actx, afgrp, volgrp, dtype) ended.
FaceMassGroup(st, dc, dd, vec, i, f, log) ==
    IF f.err # "none" THEN Raised(f.cs, log, f.err)
    ELSE FaceMassGroups(
             [cs |-> f.cs, log |-> log,
              data |-> Append(st.data,
                          Einsum("face_mass",
                                 <<f.obj, AreaElement(dd, i), VecGroup(vec, i)>>))],
             dc, dd, vec, i + 1)

\* The loop of _apply_face_mass_operator over zip(face_discr.groups,
\* volm_discr.groups), from group i on.
FaceMassGroups(st, dc, dd, vec, i) ==
    IF i > NumGroups(dc) THEN Returns(st.cs, st.log, DOFResult(st.data))
    ELSE FaceMassGroup(st, dc, dd, vec, i,
             Fetch(st.cs, "face_mass", <<GroupAt(dd, i), GroupAt(DD_VOLUME, i)>>,
                   vec.entry_dtype),
             Append(st.log, FetchedMatrix("face_mass",
                                          <<GroupAt(dd, i), GroupAt(DD_VOLUME, i)>>)))

\* _apply_face_mass_operator once both discretizations are fetched.
ApplyFaceMassOperatorTo(cs, dc, dd, vec, discrs) ==
    IF vec.t = "num" THEN Raised(cs, discrs, "AttributeError")
    ELSE FaceMassGroups([cs |-> cs, log |-> Append(discrs, FetchedAreaElement(dd)),
                         data |-> <<>>],
                        dc, dd, vec, 1)

ApplyFaceMassOperator(cs, dc, dd, vec) ==
    ApplyFaceMassOperatorTo(cs, dc, dd, vec, <<FetchedDiscr(DD_VOLUME), FetchedDiscr(dd)>>)

\* What mass, inverse_mass and face_mass do with an argument that is not an
\* object array.
ApplyToLeaf(op, cs, dc, dd, vec) ==
    CASE op = "mass" -> ApplyMassOperator(cs, dc, DD_VOLUME, dd, vec)
      [] op = "inverse_mass" -> ApplyInverseMassOperator(cs, dc, DD_VOLUME, DD_VOLUME, vec)
      [] op = "face_mass" -> ApplyFaceMassOperator(cs, dc, dd, vec)

RECURSIVE Vectorize(_, _, _, _, _, _)

\* One round of the loop of obj_array_vectorize, e being how the operator
\* applied to entry i ended; an exception ends the loop.
VectorizeEntry(op, st, dc, dd, vec, i, e) ==
    IF e.raised # "none" THEN Raised(e.cs, st.log \o e.log, e.raised)
    ELSE Vectorize(op, [cs |-> e.cs, log |-> st.log \o e.log,
                        data |-> Append(st.data, e.value)],
                   dc, dd, vec, i + 1)

\* obj_array_vectorize(lambda el: op(dcoll, dd, el), vec): the entries in index
\* order from entry i on.
Vectorize(op, st, dc, dd, vec, i) ==
    IF i > Len(vec.data) THEN Returns(st.cs, st.log, ObjArray(vec.shape, st.data))
    ELSE VectorizeEntry(op, st, dc, dd, vec, i,
                        ApplyToLeaf(op, st.cs, dc, dd, vec.data[i]))

Operator(op, cs, dc, dd, vec) ==
    IF vec.t = "arr"
    THEN Vectorize(op, [cs |-> cs, log |-> <<>>, data |-> <<>>], dc, dd, vec, 1)
    ELSE ApplyToLeaf(op, cs, dc, dd, vec)

\* mass(dcoll, dd, vec); mass(dcoll, vec) is mass(dcoll, "vol", vec)
mass(cs, dc, dd, vec) == Operator("mass", cs, dc, dd, vec)

\* inverse_mass(dcoll, vec)
inverse_mass(cs, dc, vec) == Operator("inverse_mass", cs, dc, DD_VOLUME, vec)

\* face_mass(dcoll, dd, vec); face_mass(dcoll, vec) is face_mass(dcoll, "all_faces", vec)
face_mass(cs, dc, dd, vec) == Operator("face_mass", cs, dc, dd, vec)

NoApply == [op |-> "none", dc |-> [affine |-> <<>>], dd_out |-> "none", dd_in |-> "none",
            vec |-> Num(0), raised |-> "none", log |-> <<>>, value |-> NoValue]

OpsQuiet == ncalls = 0 /\ lastApply = NoApply /\ normMemo = {}

\* An application with these arguments ends as e says.
Applied(op, dc, dd_out, dd_in, vec, e) ==
    /\ ncalls' = ncalls + 1
    /\ lastApply' = [op |-> op, dc |-> dc, dd_out |-> dd_out, dd_in |-> dd_in, vec |-> vec,
                     raised |-> e.raised, log |-> e.log, value |-> e.value]
    /\ memo' = e.cs.memo
    /\ created' = e.cs.created
    /\ served' = e.cs.served
    /\ failures' = e.cs.failures
    /\ UNCHANGED <<commVars, stack, nreq, outcome, normMemo, symVars>>

Mass ==
    /\ ncalls < MaxApplies
    /\ \E dc \in Dcolls, dd \in MassDDs, vec \in OpVecs :
          Applied("mass", dc, DD_VOLUME, dd, vec, mass(CacheState, dc, dd, vec))

InverseMass ==
    /\ ncalls < MaxApplies
    /\ \E dc \in Dcolls, vec \in OpVecs :
          Applied("inverse_mass", dc, DD_VOLUME, DD_VOLUME, vec,
                  inverse_mass(CacheState, dc, vec))

\* _apply_inverse_mass_operator called with descriptors of the caller's choice.
InverseMassOperator ==
    /\ ncalls < MaxApplies
    /\ \E dc \in Dcolls, dd_out \in InverseMassDDs, dd_in \in InverseMassDDs :
       \E vec \in {v \in OpVecs : v.t # "arr"} :
          Applied("_apply_inverse_mass_operator", dc, dd_out, dd_in, vec,
                  ApplyInverseMassOperator(CacheState, dc, dd_out, dd_in, vec))

FaceMass ==
    /\ ncalls < MaxApplies
    /\ \E dc \in Dcolls, dd \in FaceMassDDs, vec \in OpVecs :
          Applied("face_mass", dc, DD_VOLUME, dd, vec, face_mass(CacheState, dc, dd, vec))

OpsNext ==
    \/ Mass
    \/ InverseMass
    \/ InverseMassOperator
    \/ FaceMass

-----------------------------------------------------------------------------
(* Derivative operators: local_d_dx, weak_local_d_dx, local_div, weak_local_div *)

\* reference_stiffness_transpose_matrix against the cache cs: on a miss with
\* in_grp == out_grp the computation first calls reference_mass_matrix and
\* reference_derivative_matrices.
FetchStiffnessTranspose(cs, out_grp, in_grp) ==
    IF out_grp = in_grp
       /\ KeyOf("stiffness_transpose", <<out_grp, in_grp>>)
             \notin DOMAIN cs.memo[Identifier("stiffness_transpose")]
    THEN Fetch(Fetch(Fetch(cs, "mass", <<out_grp, in_grp>>, "none").cs,
                     "derivative", <<in_grp>>, "none").cs,
               "stiffness_transpose", <<out_grp, in_grp>>, "none")
    ELSE Fetch(cs, "stiffness_transpose", <<out_grp, in_grp>>, "none")

\* inverse_surface_metric_derivative(actx, dcoll, rst_axis, xyz_axis, dd) for
\* every rst_axis, as one tensor
InverseJacT(dd, xyz_axis) == [k |-> "inverse_jac_t", of |-> dd, grp |-> xyz_axis]
FetchedInverseJacT(dd, xyz_axis) == <<"inverse_jac_t", dd, xyz_axis>>

RECURSIVE LocalGradientGroups(_, _, _, _, _)

\* One round of the loop of _compute_local_gradient, f being what
\* reference_derivative_matrices(actx, grp) returned.
LocalGradientGroup(st, dc, vec, xyz_axis, i, f) ==
    LocalGradientGroups(
        [cs |-> f.cs,
         log |-> Append(st.log, FetchedMatrix("derivative", <<GroupAt(DD_VOLUME, i)>>)),
         data |-> Append(st.data,
                     Einsum("dij,ej,dej->ei",
                            <<f.obj, VecGroup(vec, i), InverseJacT(DD_VOLUME, xyz_axis)>>))],
        dc, vec, xyz_axis, i + 1)

\* The loop of _compute_local_gradient over zip(discr.groups, vec), from group i on.
LocalGradientGroups(st, dc, vec, xyz_axis, i) ==
    IF i > NumGroups(dc) THEN Returns(st.cs, st.log, DOFResult(st.data))
    ELSE LocalGradientGroup(st, dc, vec, xyz_axis, i,
             Fetch(st.cs, "derivative", <<GroupAt(DD_VOLUME, i)>>, "none"))

\* _compute_local_gradient(dcoll, vec, xyz_axis)
ComputeLocalGradient(cs, dc, vec, xyz_axis) ==
    IF vec.t = "num" THEN Raised(cs, <<FetchedDiscr(DD_VOLUME)>>, "AttributeError")
    ELSE LocalGradientGroups(
             [cs |-> cs,
              log |-> <<FetchedDiscr(DD_VOLUME), FetchedInverseJacT(DD_VOLUME, xyz_axis)>>,
              data |-> <<>>],
             dc, vec, xyz_axis, 1)

RECURSIVE StiffnessTransposeGroups(_, _, _, _, _, _, _)

\* One round of the loop of _apply_stiffness_transpose_operator, f being what
\* reference_stiffness_transpose_matrix(actx, out_grp, in_grp) returned.
StiffnessTransposeGroup(st, dc, dd_out, dd_in, vec, xyz_axis, i, f) ==
    StiffnessTransposeGroups(
        [cs |-> f.cs,
         log |-> Append(st.log, FetchedMatrix("stiffness_transpose",
                                   <<GroupAt(dd_out, i), GroupAt(dd_in, i)>>)),
         data |-> Append(st.data,
                     Einsum("dej,dij,ej,ej->ei",
                            <<InverseJacT(dd_in, xyz_axis), f.obj, VecGroup(vec, i),
                              AreaElement(dd_in, i)>>))],
        dc, dd_out, dd_in, vec, xyz_axis, i + 1)

\* The loop of _apply_stiffness_transpose_operator over zip(out_discr.groups,
\* in_discr.groups, vec, area_elements), from group i on.
StiffnessTransposeGroups(st, dc, dd_out, dd_in, vec, xyz_axis, i) ==
    IF i > NumGroups(dc) THEN Returns(st.cs, st.log, DOFResult(st.data))
    ELSE StiffnessTransposeGroup(st, dc, dd_out, dd_in, vec, xyz_axis, i,
             FetchStiffnessTranspose(st.cs, GroupAt(dd_out, i), GroupAt(dd_in, i)))

\* _apply_stiffness_transpose_operator(dcoll, dd_out, dd_in, vec, xyz_axis)
ApplyStiffnessTransposeOperator(cs, dc, dd_out, dd_in, vec, xyz_axis) ==
    IF vec.t = "num"
    THEN Raised(cs, <<FetchedDiscr(dd_in), FetchedDiscr(dd_out)>>, "AttributeError")
    ELSE StiffnessTransposeGroups(
             [cs |-> cs,
              log |-> <<FetchedDiscr(dd_in), FetchedDiscr(dd_out),
                        FetchedAreaElement(dd_in), FetchedInverseJacT(dd_in, xyz_axis)>>,
              data |-> <<>>],
             dc, dd_out, dd_in, vec, xyz_axis, 1)

\* local_d_dx(dcoll, xyz_axis, vec)
local_d_dx(cs, dc, xyz_axis, vec) == ComputeLocalGradient(cs, dc, vec, xyz_axis)

\* weak_local_d_dx(dcoll, dd, xyz_axis, vec)
weak_local_d_dx(cs, dc, dd, xyz_axis, vec) ==
    ApplyStiffnessTransposeOperator(cs, dc, DD_VOLUME, dd, vec, xyz_axis)

\* The diff_func local_div and weak_local_div hand to _div_helper.
DiffFunc(op, cs, dc, dd, i, subvec) ==
    IF op = "local_div" THEN local_d_dx(cs, dc, i, subvec)
    ELSE weak_local_d_dx(cs, dc, dd, i, subvec)

\* Python's sum(terms): 0 + terms[0] + terms[1] + ...
PySum(terms) == [t |-> "sum", terms |-> terms]

RECURSIVE DivSum(_, _, _, _, _, _)

\* One term of the sum of _div_helper, e being how diff_func(i - 1, row[i]) ended.
DivTerm(op, st, dc, dd, row, i, e) ==
    IF e.raised # "none" THEN Raised(e.cs, st.log \o e.log, e.raised)
    ELSE DivSum(op, [cs |-> e.cs, log |-> st.log \o e.log,
                     data |-> Append(st.data, e.value)],
                dc, dd, row, i + 1)

\* sum(diff_func(i, vec_i) for i, vec_i in enumerate(row)), from entry i on.
DivSum(op, st, dc, dd, row, i) ==
    IF i > Len(row) THEN Returns(st.cs, st.log, PySum(st.data))
    ELSE DivTerm(op, st, dc, dd, row, i, DiffFunc(op, st.cs, dc, dd, i - 1, row[i]))

\* vecs[idx] for the r-th index idx of np.ndindex(vecs.shape[:-1])
DivRowOf(vecs, r) ==
    SubSeq(vecs.data, (r - 1) * vecs.shape[Len(vecs.shape)] + 1,
           r * vecs.shape[Len(vecs.shape)])

RECURSIVE DivRows(_, _, _, _, _, _)

\* One round of the loop over np.ndindex(vecs.shape[:-1]), e being how the sum
\* for the r-th index ended.
DivRow(op, st, dc, dd, vecs, r, e) ==
    IF e.raised # "none" THEN Raised(e.cs, st.log \o e.log, e.raised)
    ELSE DivRows(op, [cs |-> e.cs, log |-> st.log \o e.log,
                      data |-> Append(st.data, e.value)],
                 dc, dd, vecs, r + 1)

\* The loop of _div_helper over np.ndindex(vecs.shape[:-1]), from the r-th index on.
DivRows(op, st, dc, dd, vecs, r) ==
    IF r > Prod(SubSeq(vecs.shape, 1, Len(vecs.shape) - 1))
    THEN Returns(st.cs, st.log,
                 ObjArray(SubSeq(vecs.shape, 1, Len(vecs.shape) - 1), st.data))
    ELSE DivRow(op, st, dc, dd, vecs, r,
                DivSum(op, [cs |-> st.cs, log |-> <<>>, data |-> <<>>],
                       dc, dd, DivRowOf(vecs, r), 1))

\* _div_helper without the comparison of the last axis with the ambient dimension.
DivHelper_NoDimensionCheck(op, cs, dc, dd, vecs) ==
    IF vecs.t # "arr" THEN Raised(cs, <<>>, "TypeError")
    ELSE IF Len(vecs.shape) = 1
    THEN DivSum(op, [cs |-> cs, log |-> <<>>, data |-> <<>>], dc, dd, vecs.data, 1)
    ELSE DivRows(op, [cs |-> cs, log |-> <<>>, data |-> <<>>], dc, dd, vecs, 1)

\* _div_helper(dcoll, diff_func, vecs)
DivHelper(op, cs, dc, dd, vecs) ==
    IF vecs.t # "arr" THEN Raised(cs, <<>>, "TypeError")
    ELSE IF vecs.shape[Len(vecs.shape)] # dc.ambient_dim THEN Raised(cs, <<>>, "ValueError")
    ELSE IF Len(vecs.shape) = 1
    THEN DivSum(op, [cs |-> cs, log |-> <<>>, data |-> <<>>], dc, dd, vecs.data, 1)
    ELSE DivRows(op, [cs |-> cs, log |-> <<>>, data |-> <<>>], dc, dd, vecs, 1)

\* local_div(dcoll, vecs)
local_div(cs, dc, vecs) == DivHelper("local_div", cs, dc, DD_VOLUME, vecs)

\* weak_local_div(dcoll, dd, vecs); weak_local_div(dcoll, vecs) is
\* weak_local_div(dcoll, "vol", vecs)
weak_local_div(cs, dc, dd, vecs) == DivHelper("weak_local_div", cs, dc, dd, vecs)

\* The discretization collections the divergence is taken on: affine groups,
\* and the ambient dimension.
DivDcolls == {[affine |-> [i \in 1 .. n |-> TRUE], ambient_dim |-> d] :
                 n \in 1 .. MaxGroups, d \in 1 .. MaxDim}

\* The shapes of the arguments of the divergence, and the arguments: object
\* arrays of DOFArrays, each entry a field of its own, and a bare DOFArray.
DivShapes == {<<n>> : n \in 1 .. MaxDim + 1} \cup
             {<<k, n>> : k \in 1 .. 2, n \in 1 .. MaxDim + 1}

DivVecs == {ObjArray(shape, [j \in 1 .. Prod(shape) |-> DOFArray(j, "float64")]) :
               shape \in DivShapes}
           \cup {DOFArray(0, "float64")}

LocalDiv ==
    /\ ncalls < MaxApplies
    /\ \E dc \in DivDcolls, vecs \in DivVecs :
          Applied("local_div", dc, DD_VOLUME, DD_VOLUME, vecs,
                  local_div(CacheState, dc, vecs))

WeakLocalDiv ==
    /\ ncalls < MaxApplies
    /\ \E dc \in DivDcolls, dd \in MassDDs, vecs \in DivVecs :
          Applied("weak_local_div", dc, DD_VOLUME, dd, vecs,
                  weak_local_div(CacheState, dc, dd, vecs))

DivNext ==
    \/ LocalDiv
    \/ WeakLocalDiv

-----------------------------------------------------------------------------
(* Reductions: norm *)

\* The orders norm is called with: 1, 2 and np.inf.
NormOrders == {"1", "2", "inf"}

\* dof_desc.as_dofdesc(dd) after the default "vol" for a missing dd
NormDD(dd) == IF dd = "none" THEN DD_VOLUME ELSE dd

\* sym.norm(p, sym.var("arg", dd=dd), dd=dd) builds an expression for the
\* orders 2 and infinity and raises for every other order.
SymNormSupports(p) == p \in {"2", "inf"}

\* What the bound operator of _norm(dcoll, p, dd) returns for a field.
FieldNorm(p, dd, vec) == [t |-> "norm", p |-> p, dd |-> dd, of |-> vec]

\* _norm(dcoll, p, dd)(arg=vec): the bound operator is memoized on dcoll under
\* (p, dd); building it raises for an unsupported order, and then nothing is
\* memoized.
BoundNorm(nm, p, dd, vec) ==
    IF <<p, dd>> \in nm THEN [memo |-> nm, raised |-> "none", value |-> FieldNorm(p, dd, vec)]
    ELSE IF ~SymNormSupports(p) THEN [memo |-> nm, raised |-> "ValueError", value |-> NoValue]
    ELSE [memo |-> nm \cup {<<p, dd>>}, raised |-> "none", value |-> FieldNorm(p, dd, vec)]

Squared(x) == [t |-> "pow", base |-> x, exp |-> "2"]
SquareRoot(x) == [t |-> "pow", base |-> x, exp |-> "0.5"]
PyMax(items) == [t |-> "max", items |-> items]

RECURSIVE ComponentNorms(_, _, _, _, _)

\* norm(dcoll, vec[idx], p, dd=dd) for idx in np.ndindex(vec.shape), from the
\* i-th index on; r is what the norm of the i-th component returned.
ComponentNorm(st, p, dd, data, i, r) ==
    IF r.raised # "none" THEN [memo |-> r.memo, raised |-> r.raised, value |-> <<>>]
    ELSE ComponentNorms([memo |-> r.memo, value |-> Append(st.value, r.value)],
                        p, dd, data, i + 1)

ComponentNorms(st, p, dd, data, i) ==
    IF i > Len(data) THEN [memo |-> st.memo, raised |-> "none", value |-> st.value]
    ELSE ComponentNorm(st, p, dd, data, i, BoundNorm(st.memo, p, dd, data[i]))

SquareAll(norms) == [i \in 1 .. Len(norms) |-> Squared(norms[i])]

\* The branches of norm for an object array, c being the component norms.
NormOfArray(p, c) ==
    IF c.raised # "none" THEN [memo |-> c.memo, raised |-> c.raised, value |-> NoValue]
    ELSE IF p = "2"
    THEN [memo |-> c.memo, raised |-> "none",
          value |-> SquareRoot(PySum(SquareAll(c.value)))]
    ELSE [memo |-> c.memo, raised |-> "none", value |-> PyMax(c.value)]

norm_DefaultsToMax(nm, vec, p, dd) ==
    IF vec.t = "arr"
    THEN NormOfArray(p, ComponentNorms([memo |-> nm, value |-> <<>>],
                                       IF p = "2" THEN "2" ELSE "inf",
                                       NormDD(dd), vec.data, 1))
    ELSE BoundNorm(nm, p, NormDD(dd), vec)

\* norm(dcoll, vec, p, dd) with the memoized operators nm
norm(nm, vec, p, dd) ==
    IF vec.t = "arr"
    THEN IF p \in {"2", "inf"}
         THEN NormOfArray(p, ComponentNorms([memo |-> nm, value |-> <<>>],
                                            p, NormDD(dd), vec.data, 1))
         ELSE [memo |-> nm, raised |-> "ValueError", value |-> NoValue]
    ELSE BoundNorm(nm, p, NormDD(dd), vec)

\* The arguments norm is applied to: a field or an object array of fields.
NormShapes == {<<n>> : n \in 1 .. MaxDim} \cup {<<1, MaxDim>>}

NormVecs == {DOFArray("u", "float64")} \cup
            {ObjArray(shape, [j \in 1 .. Prod(shape) |-> DOFArray(j, "float64")]) :
                shape \in NormShapes}

NormApplied(vec, p, dd, r) ==
    /\ ncalls' = ncalls + 1
    /\ normMemo' = r.memo
    /\ lastApply' = [op |-> "norm", dc |-> [affine |-> <<>>], dd_out |-> dd,
                     dd_in |-> NormDD(dd), vec |-> vec, p |-> p,
                     raised |-> r.raised, log |-> <<>>, value |-> r.value]
    /\ UNCHANGED <<commVars, cacheVars, symVars>>

Norm ==
    /\ ncalls < MaxNormCalls
    /\ \E vec \in NormVecs, p \in NormOrders, dd \in {"none"} \cup MassDDs :
          NormApplied(vec, p, dd, norm(normMemo, vec, p, dd))

-----------------------------------------------------------------------------
(* Symbolic operator processing: expressions *)

\* pymbolic / grudge.symbolic expression nodes
Variable(name) == [k |-> "var", name |-> name]
Constant(n) == [k |-> "const", n |-> n]
Product(children) == [k |-> "prod", children |-> children]
Sum(children) == [k |-> "sum", children |-> children]
Quotient(num, den) == [k |-> "quot", num |-> num, den |-> den]
OperatorBinding(op, field) == [k |-> "bind", op |-> op, field |-> field]
BoundaryPair(field, bfield, tag) ==
    [k |-> "bpair", field |-> field, bfield |-> bfield, tag |-> tag]
ObjectArray(data) == [k |-> "array", data |-> data]

One == Constant(1)

\* An operator of class cls; the attributes a class does not have are "none"
\* (-1 for xyz_axis).
Op(cls, dd_in, dd_out, xyz_axis, quadrature_tag, is_lift, tag) ==
    [k |-> "op", cls |-> cls, dd_in |-> dd_in, dd_out |-> dd_out, xyz_axis |-> xyz_axis,
     quadrature_tag |-> quadrature_tag, is_lift |-> is_lift, tag |-> tag]

\* isinstance(expr, op.Operator)
IsOperator(e) == e.k = "op"

\* Expression.__mul__: a factor of one is dropped.
Mul(a, b) == IF b = One THEN a ELSE IF a = One THEN b ELSE Product(<<a, b>>)

\* The result of a mapper run: the exception it ended with or the expression
\* it returned, and the warnings issued on the way.
Mapped(value, warnings) == [raised |-> "none", value |-> value, warnings |-> warnings]
Failed(err, warnings) == [raised |-> err, value |-> One, warnings |-> warnings]

-----------------------------------------------------------------------------
(* Symbolic operator processing: OperatorBinder *)

RECURSIVE flattened_product_from(_, _)

\* The loop of pymbolic's flattened_product over its queue: a factor of one is
\* dropped, the children of a product are appended to the queue.
flattened_product_from(queue, done) ==
    IF queue = <<>>
    THEN IF Len(done) = 0 THEN One
         ELSE IF Len(done) = 1 THEN done[1]
         ELSE Product(done)
    ELSE IF Head(queue) = One THEN flattened_product_from(Tail(queue), done)
    ELSE IF Head(queue).k = "prod"
    THEN flattened_product_from(Tail(queue) \o Head(queue).children, done)
    ELSE flattened_product_from(Tail(queue), Append(done, Head(queue)))

flattened_product(terms) == flattened_product_from(terms, <<>>)

\* first * r and sym.OperatorBinding(first, r), r being what self.rec returned.
TimesRec(first, r) == Mapped(Mul(first, r.value), r.warnings)
BindRec(first, r) == Mapped(OperatorBinding(first, r.value), r.warnings)

\* The warning of map_product for binding first to prod.
BinderWarning(first, prod) == [warning |-> "ambiguous binding", op |-> first, operand |-> prod]

BinderWarns(prod) == prod.k = "prod" /\ Len(prod.children) > 1

RECURSIVE OperatorBinder_rec(_, _)

\* map_product binding the operator to the first of the remaining factors only.
OperatorBinder_BindsFirstFactor(first, prod, w) ==
    IF IsOperator(first)
    THEN IF BinderWarns(prod)
         THEN TimesRec(OperatorBinding(first, prod.children[1]),
                       OperatorBinder_rec(flattened_product(Tail(prod.children)), w))
         ELSE BindRec(first, OperatorBinder_rec(prod, w))
    ELSE TimesRec(first, OperatorBinder_rec(prod, w))

\* OperatorBinder.map_product for a product of at least one factor, first being
\* its first factor and prod the flattened product of the others.
OperatorBinder_map_product(first, prod, w) ==
    IF IsOperator(first)
    THEN BindRec(first,
                 OperatorBinder_rec(prod, IF BinderWarns(prod)
                                          THEN Append(w, BinderWarning(first, prod))
                                          ELSE w))
    ELSE TimesRec(first, OperatorBinder_rec(prod, w))

\* OperatorBinder.rec: products go to map_product, every other node of the
\* inputs is a leaf the identity mapper returns as it is.
OperatorBinder_rec(expr, w) ==
    IF expr.k = "prod" /\ Len(expr.children) > 0
    THEN OperatorBinder_map_product(expr.children[1],
                                    flattened_product(Tail(expr.children)), w)
    ELSE Mapped(expr, w)

\* OperatorBinder()(expr)
OperatorBinder(expr) == OperatorBinder_rec(expr, <<>>)

\* The operators and fields products are written with.
MassOperator(dd_in, dd_out) == Op("MassOperator", dd_in, dd_out, -1, "none", FALSE, "none")
DiffOperator(xyz_axis) == Op("DiffOperator", DD_VOLUME, DD_VOLUME, xyz_axis, "none", FALSE, "none")

BinderAtoms == {Variable("u"), Variable("v"), MassOperator(DD_VOLUME, DD_VOLUME), DiffOperator(0)}

\* The factors of the products: an operator, a field, one, or a parenthesized
\* product.
BinderFactors ==
    BinderAtoms \cup {One}
    \cup {Product(<<Variable("u"), Variable("v")>>),
          Product(<<MassOperator(DD_VOLUME, DD_VOLUME), Variable("u")>>)}

BinderExprs ==
    UNION {{Product(c) : c \in [1 .. n -> BinderFactors]} : n \in 0 .. MaxFactors}

NotRun == <<>>

\* One run of OperatorBinder on an expression.
BindOperators ==
    /\ sresult = NotRun
    /\ \E expr \in BinderExprs :
          /\ sexpr' = expr
          /\ sresult' = OperatorBinder(expr)
    /\ UNCHANGED <<commVars, cacheVars, opVars>>

-----------------------------------------------------------------------------
(* Symbolic operator processing: OperatorSpecializer *)

\* The types of the type map: a representation tag (nodal, or quadrature with a
\* quadrature tag) and, for boundary vectors, a boundary tag; NoType has no
\* representation tag.
TypeInfo(repr, quadrature_tag, boundary_tag) ==
    [repr |-> repr, quadrature_tag |-> quadrature_tag, boundary_tag |-> boundary_tag]

NoType == TypeInfo("none", "none", "none")

Types == {NoType, TypeInfo("nodal", "none", "none"), TypeInfo("nodal", "none", "bdry"),
          TypeInfo("quad", "q1", "none"), TypeInfo("quad", "q2", "none")}

\* type.repr_tag
ReprTag(type) == [repr |-> type.repr, quadrature_tag |-> type.quadrature_tag]

\* The fields of the inputs, and the keys of the type map: one per field, and
\* one for an operator binding standing as a field.
FieldNames == {"u", "v"}
TypeKeys == FieldNames \cup {"bound"}

\* self.typedict[expr] for a hashable expr; boundary pairs are not assigned types.
TypeOf(typedict, e) ==
    IF e.k = "var" THEN typedict[e.name]
    ELSE IF e.k = "bind" THEN typedict["bound"]
    ELSE NoType

\* has_quad_operand that is false for every field with a representation tag.
HasQuadOperand_NeverQuadrature(typedict, field) ==
    IF field.k = "array" THEN "unset"
    ELSE IF TypeOf(typedict, field).repr = "none"
    THEN IF field.k = "bpair" THEN "false" ELSE "AssertionError"
    ELSE "false"

\* The "figure out field type" block: has_quad_operand, which stays unset for an
\* array field, or the failed assertion for a field without a type that is no
\* boundary pair.
HasQuadOperand(typedict, field) ==
    IF field.k = "array" THEN "unset"
    ELSE IF TypeOf(typedict, field).repr = "none"
    THEN IF field.k = "bpair" THEN "false" ELSE "AssertionError"
    ELSE IF TypeOf(typedict, field).repr = "quad" THEN "true" ELSE "false"

\* The operator classes map_operator_binding substitutes a quadrature variant for.
QuadratureVariant(cls) ==
    CASE cls = "MassOperator" -> "QuadratureMassOperator"
      [] cls = "RefMassOperator" -> "RefQuadratureMassOperator"
      [] cls = "StiffnessTOperator" -> "QuadratureStiffnessTOperator"
      [] cls = "RefStiffnessTOperator" -> "RefQuadratureStiffnessTOperator"
      [] OTHER -> "none"

FluxClasses == {"FluxOperator", "BoundaryFluxOperator"}

\* op.Quadrature*Operator(quadrature_tag) and (xyz_axis, quadrature_tag)
QuadratureOperator(cls, xyz_axis, quadrature_tag) ==
    Op(cls, DD_VOLUME, DD_VOLUME, xyz_axis, quadrature_tag, FALSE, "none")

\* op.FluxOperator(flux, is_lift), op.BoundaryFluxOperator(flux, tag),
\* op.QuadratureFluxOperator(flux, quad_tag),
\* op.QuadratureBoundaryFluxOperator(flux, quad_tag, tag)
FluxOp(cls, quadrature_tag, is_lift, tag) ==
    Op(cls, DD_VOLUME, DD_VOLUME, -1, quadrature_tag, is_lift, tag)

\* with_object_array_or_scalar visits every component of an array, or the scalar.
Components(x) == IF x.k = "array" THEN x.data ELSE <<x>>

\* The operands of a flux binding in the order process_flux_arg sees them.
FluxOperands(field) ==
    IF field.k = "bpair" THEN Components(field.field) \o Components(field.bfield)
    ELSE Components(field)

NoReprTag == [repr |-> "unset", quadrature_tag |-> "none"]

RECURSIVE ProcessFluxArgs(_, _, _, _)

\* process_flux_arg for the operands from the i-th on; cell is repr_tag_cell[0].
\* Yields the tag all operands share, or the exception.
ProcessFluxArgs(typedict, args, i, cell) ==
    IF i > Len(args) THEN [raised |-> "none", tag |-> cell]
    ELSE IF TypeOf(typedict, args[i]).repr = "none"
    THEN [raised |-> "AttributeError", tag |-> cell]
    ELSE IF cell = NoReprTag
    THEN ProcessFluxArgs(typedict, args, i + 1, ReprTag(TypeOf(typedict, args[i])))
    ELSE IF ReprTag(TypeOf(typedict, args[i])) # cell
    THEN [raised |-> "AssertionError", tag |-> cell]
    ELSE ProcessFluxArgs(typedict, args, i + 1, cell)

\* ProcessFluxArgs looking at the first operand only.
OperandTags_FirstOnly(typedict, field) ==
    ProcessFluxArgs(typedict, SubSeq(FluxOperands(field), 1, 1), 1, NoReprTag)

\* The tags of all operands of a flux binding.
OperandTags(typedict, field) == ProcessFluxArgs(typedict, FluxOperands(field), 1, NoReprTag)

\* The specialized flux operator for the shared tag.
SpecializedFlux(expr, tag) ==
    IF expr.field.k = "bpair"
    THEN IF tag.repr = "quad"
         THEN FluxOp("QuadratureBoundaryFluxOperator", tag.quadrature_tag, FALSE,
                     expr.field.tag)
         ELSE FluxOp("BoundaryFluxOperator", "none", FALSE, expr.field.tag)
    ELSE IF tag.repr = "quad"
         THEN FluxOp("QuadratureFluxOperator", tag.quadrature_tag, FALSE, "none")
         ELSE FluxOp("FluxOperator", "none", expr.op.is_lift, "none")

\* op(r) for what self.rec(expr.field) returned, or its exception.
BindTo(op, r) ==
    IF r.raised # "none" THEN r ELSE Mapped(OperatorBinding(op, r.value), r.warnings)

RECURSIVE OperatorSpecializer_rec(_, _)

\* The flux operator specialization of map_operator_binding, t being what
\* processing the operands gave.
SpecializeFlux(typedict, expr, t) ==
    IF t.raised # "none" THEN Failed(t.raised, <<>>)
    ELSE IF t.tag.repr = "quad" /\ expr.op.is_lift THEN Failed("AssertionError", <<>>)
    ELSE BindTo(SpecializedFlux(expr, t.tag), OperatorSpecializer_rec(typedict, expr.field))

\* map_operator_binding from the elementwise operators on, hq being
\* has_quad_operand.
SpecializeBinding(typedict, expr, hq) ==
    IF hq = "AssertionError" THEN Failed("AssertionError", <<>>)
    ELSE IF QuadratureVariant(expr.op.cls) # "none" /\ hq = "unset"
    THEN Failed("UnboundLocalError", <<>>)
    ELSE IF QuadratureVariant(expr.op.cls) # "none" /\ hq = "true"
    THEN BindTo(QuadratureOperator(QuadratureVariant(expr.op.cls), expr.op.xyz_axis,
                                   TypeOf(typedict, expr.field).quadrature_tag),
                OperatorSpecializer_rec(typedict, expr.field))
    ELSE IF expr.op.cls = "QuadratureGridUpsampler" /\ hq = "unset"
    THEN Failed("UnboundLocalError", <<>>)
    ELSE IF expr.op.cls = "QuadratureGridUpsampler"
            /\ TypeOf(typedict, expr.field).boundary_tag # "none"
    THEN Mapped(OperatorBinding(
                    Op("QuadratureBoundaryGridUpsampler", DD_VOLUME, DD_VOLUME, -1,
                       expr.op.quadrature_tag, FALSE,
                       TypeOf(typedict, expr.field).boundary_tag),
                    expr.field), <<>>)
    ELSE IF expr.op.cls = "RestrictToBoundary" /\ hq = "unset"
    THEN Failed("UnboundLocalError", <<>>)
    ELSE IF expr.op.cls = "RestrictToBoundary" /\ hq = "true"
    THEN Failed("TypeError", <<>>)
    ELSE IF expr.op.cls \in FluxClasses
    THEN SpecializeFlux(typedict, expr, OperandTags(typedict, expr.field))
    ELSE BindTo(expr.op, OperatorSpecializer_rec(typedict, expr.field))

\* OperatorSpecializer.map_operator_binding
OperatorSpecializer_map_operator_binding(typedict, expr) ==
    SpecializeBinding(typedict, expr, HasQuadOperand(typedict, expr.field))

\* OperatorSpecializer.rec: operator bindings go to map_operator_binding; the
\* arrays and boundary pairs of the inputs hold fields only, which the identity
\* mapper returns as they are.
OperatorSpecializer_rec(typedict, expr) ==
    IF expr.k = "bind" THEN OperatorSpecializer_map_operator_binding(typedict, expr)
    ELSE Mapped(expr, <<>>)

\* OperatorSpecializer(typedict)(expr)
OperatorSpecializer(typedict, expr) == OperatorSpecializer_rec(typedict, expr)

\* The operators of the bindings handed to OperatorSpecializer.
ElementwiseOp(cls, xyz_axis) == Op(cls, DD_VOLUME, DD_VOLUME, xyz_axis, "none", FALSE, "none")

SpecializerOps ==
    {ElementwiseOp(cls, -1) : cls \in {"MassOperator", "RefMassOperator", "InverseMassOperator"}}
    \cup {ElementwiseOp(cls, 0) : cls \in {"StiffnessTOperator", "RefStiffnessTOperator",
                                           "DiffOperator", "RefDiffOperator"}}
    \cup {Op("RestrictToBoundary", DD_VOLUME, DD_VOLUME, -1, "none", FALSE, "bdry"),
          Op("QuadratureGridUpsampler", DD_VOLUME, DD_VOLUME, -1, "q1", FALSE, "none"),
          FluxOp("FluxOperator", "none", FALSE, "none"),
          FluxOp("FluxOperator", "none", TRUE, "none"),
          FluxOp("BoundaryFluxOperator", "none", FALSE, "bdry")}

Fields == {Variable(n) : n \in FieldNames}

FieldArrays == UNION {{ObjectArray(d) : d \in [1 .. n -> Fields]} : n \in 1 .. MaxOperands}

\* What an operator is bound to: a field, an array of fields, a boundary pair
\* of fields or arrays, or the binding of an operator to a field.
SpecializerFields ==
    Fields \cup FieldArrays
    \cup {BoundaryPair(Variable("u"), b, "bdry") : b \in Fields}
    \cup {BoundaryPair(a, ObjectArray(<<Variable("v")>>), "bdry") : a \in FieldArrays}
    \cup {OperatorBinding(o, Variable("u")) :
             o \in {ElementwiseOp("MassOperator", -1),
                    Op("RestrictToBoundary", DD_VOLUME, DD_VOLUME, -1, "none", FALSE, "bdry")}}

\* One run of OperatorSpecializer on an operator binding under a type map.
SpecializeOperators ==
    /\ sresult = NotRun
    /\ \E o \in SpecializerOps, f \in SpecializerFields, typedict \in [TypeKeys -> Types] :
          /\ sexpr' = [typedict |-> typedict, expr |-> OperatorBinding(o, f)]
          /\ sresult' = OperatorSpecializer(typedict, OperatorBinding(o, f))
    /\ UNCHANGED <<commVars, cacheVars, opVars>>

-----------------------------------------------------------------------------
(* Symbolic operator processing: GlobalToReferenceMapper *)

\* sym.area_element(ambient_dim, dim, dd=dd)
area_element(ambient_dim, dim, dd) ==
    [k |-> "area_element", ambient_dim |-> ambient_dim, dim |-> dim, dd |-> dd]

\* sym.inverse_metric_derivative(rst_axis, xyz_axis, ambient_dim=..., dim=...)
inverse_metric_derivative(rst_axis, xyz_axis, ambient_dim, dim) ==
    [k |-> "inverse_metric_derivative", rst_axis |-> rst_axis, xyz_axis |-> xyz_axis,
     ambient_dim |-> ambient_dim, dim |-> dim]

\* The descriptors of the operators; "default" is the descriptor an operator
\* built without one gets.
SymDDs == {"vol", "vol_quad", "all_faces", "all_faces_quad"}

\* dd.with_qtag(sym.QTAG_NONE)
WithoutQTag(dd) ==
    CASE dd = "vol_quad" -> "vol"
      [] dd = "all_faces_quad" -> "all_faces"
      [] OTHER -> dd

\* -x and 1/x of an expression
Neg(x) == Product(<<Constant(-1), x>>)
Inverse(x) == Quotient(One, x)

\* sum(terms): nothing for no term, the term itself for one
PySumOf(terms) ==
    IF Len(terms) = 0 THEN Constant(0)
    ELSE IF Len(terms) = 1 THEN terms[1]
    ELSE Sum(terms)

\* An operator with descriptors and, for the derivative operators, an axis.
DDOp(cls, dd_in, dd_out, axis) == Op(cls, dd_in, dd_out, axis, "none", FALSE, "none")

\* The geometric factor of a mass, inverse mass or face mass operator without
\* the sign of the face mass factor.
GeometricFactor_Unsigned(cls, ambient_dim, dim, dd_in) ==
    IF cls = "MassOperator" THEN area_element(ambient_dim, dim, dd_in)
    ELSE IF cls = "InverseMassOperator" THEN Inverse(area_element(ambient_dim, dim, dd_in))
    ELSE area_element(ambient_dim, dim - 1, dd_in)

\* jac_in, 1/jac_in and jac_in_surf of map_operator_binding
GeometricFactor(cls, ambient_dim, dim, dd_in) ==
    IF cls = "MassOperator" THEN area_element(ambient_dim, dim, dd_in)
    ELSE IF cls = "InverseMassOperator" THEN Inverse(area_element(ambient_dim, dim, dd_in))
    ELSE Neg(area_element(ambient_dim, dim - 1, dd_in))

RefClass(cls) ==
    CASE cls = "MassOperator" -> "RefMassOperator"
      [] cls = "InverseMassOperator" -> "RefInverseMassOperator"
      [] cls = "FaceMassOperator" -> "RefFaceMassOperator"
      [] cls = "DiffOperator" -> "RefDiffOperator"
      [] cls = "StiffnessTOperator" -> "RefStiffnessTOperator"

\* rewrite_derivative keeping the term of the first reference axis only.
rewrite_derivative_FirstAxisOnly(m, ref_class, xyz_axis, dd_in, rec_field) ==
    Mul(inverse_metric_derivative(0, xyz_axis, m.ambient_dim, m.dim),
        OperatorBinding(DDOp(ref_class, dd_in, "default", 0), rec_field))

\* rewrite_derivative(ref_class, field, dd_in, with_jacobian) of
\* map_operator_binding, rec_field being self.rec(field), times the area
\* element if with_jacobian.
rewrite_derivative(m, ref_class, xyz_axis, dd_in, rec_field) ==
    PySumOf([i \in 1 .. m.dim |->
                Mul(inverse_metric_derivative(i - 1, xyz_axis, m.ambient_dim, m.dim),
                    OperatorBinding(DDOp(ref_class, dd_in, "default", i - 1), rec_field))])

RECURSIVE GlobalToReferenceMapper_rec(_, _)

\* GlobalToReferenceMapper.map_operator_binding for the mapper m (its
\* ambient_dim and dim).
GlobalToReferenceMapper_map_operator_binding(m, expr) ==
    IF expr.op.cls \in {"MassOperator", "InverseMassOperator", "FaceMassOperator"}
    THEN OperatorBinding(
             DDOp(RefClass(expr.op.cls), expr.op.dd_in, expr.op.dd_out, -1),
             Mul(GeometricFactor(expr.op.cls, m.ambient_dim, m.dim, expr.op.dd_in),
                 GlobalToReferenceMapper_rec(m, expr.field)))
    ELSE IF expr.op.cls = "StiffnessOperator"
    THEN OperatorBinding(
             DDOp("RefMassOperator", "default", "default", -1),
             Mul(area_element(m.ambient_dim, m.dim, WithoutQTag(expr.op.dd_in)),
                 GlobalToReferenceMapper_rec(m,
                     OperatorBinding(DDOp("DiffOperator", "default", "default",
                                          expr.op.xyz_axis),
                                     expr.field))))
    ELSE IF expr.op.cls = "DiffOperator"
    THEN rewrite_derivative(m, "RefDiffOperator", expr.op.xyz_axis, expr.op.dd_in,
                            GlobalToReferenceMapper_rec(m, expr.field))
    ELSE IF expr.op.cls = "StiffnessTOperator"
    THEN rewrite_derivative(m, "RefStiffnessTOperator", expr.op.xyz_axis, expr.op.dd_in,
                            Mul(area_element(m.ambient_dim, m.dim, expr.op.dd_in),
                                GlobalToReferenceMapper_rec(m, expr.field)))
    ELSE IF expr.op.cls = "MInvSTOperator"
    THEN GlobalToReferenceMapper_rec(m,
             OperatorBinding(DDOp("InverseMassOperator", "default", "default", -1),
                 OperatorBinding(DDOp("StiffnessTOperator", "default", "default",
                                      expr.op.xyz_axis),
                                 expr.field)))
    ELSE OperatorBinding(expr.op, GlobalToReferenceMapper_rec(m, expr.field))

\* GlobalToReferenceMapper.rec without the descent into products and sums.
GlobalToReferenceMapper_rec_BindingsOnly(m, expr) ==
    IF expr.k = "bind" THEN GlobalToReferenceMapper_map_operator_binding(m, expr)
    ELSE expr

\* GlobalToReferenceMapper.rec: bindings go to map_operator_binding, products,
\* sums and quotients are mapped child by child (IdentityMapper), fields and
\* geometric factors are returned as they are.
GlobalToReferenceMapper_rec(m, expr) ==
    IF expr.k = "bind" THEN GlobalToReferenceMapper_map_operator_binding(m, expr)
    ELSE IF expr.k = "prod"
    THEN Product([i \in 1 .. Len(expr.children) |->
                     GlobalToReferenceMapper_rec(m, expr.children[i])])
    ELSE IF expr.k = "sum"
    THEN Sum([i \in 1 .. Len(expr.children) |->
                 GlobalToReferenceMapper_rec(m, expr.children[i])])
    ELSE IF expr.k = "quot"
    THEN Quotient(GlobalToReferenceMapper_rec(m, expr.num),
                  GlobalToReferenceMapper_rec(m, expr.den))
    ELSE expr

\* GlobalToReferenceMapper(ambient_dim, dim)(expr); dim defaults to ambient_dim.
GlobalToReferenceMapper(ambient_dim, dim, expr) ==
    GlobalToReferenceMapper_rec(
        [ambient_dim |-> ambient_dim, dim |-> IF dim = -1 THEN ambient_dim ELSE dim], expr)

\* The global operators of the bindings handed to the mapper.
GlobalOps ==
    {DDOp(cls, dd_in, dd_out, -1) :
        cls \in {"MassOperator", "InverseMassOperator", "FaceMassOperator", "InterpolationOperator"},
        dd_in \in SymDDs, dd_out \in {"vol", "all_faces"}}
    \cup {DDOp(cls, dd_in, "vol", axis) :
             cls \in {"StiffnessOperator", "DiffOperator", "StiffnessTOperator",
                      "MInvSTOperator"},
             dd_in \in {"vol", "vol_quad"}, axis \in 0 .. MaxDim - 1}

\* What the operators are bound to: a field, a binding, or a product or a sum
\* holding a binding.
GlobalFields ==
    {Variable("u"),
     OperatorBinding(DDOp("MassOperator", "vol_quad", "vol", -1), Variable("u")),
     Product(<<Variable("v"),
               OperatorBinding(DDOp("FaceMassOperator", "all_faces", "vol", -1),
                               Variable("u"))>>),
     Sum(<<Variable("u"),
           OperatorBinding(DDOp("MInvSTOperator", "vol", "vol", 0), Variable("v"))>>)}

\* One run of GlobalToReferenceMapper on an operator binding.
MapGlobalToReference ==
    /\ sresult = NotRun
    /\ \E o \in GlobalOps, f \in GlobalFields, ambient_dim \in 1 .. MaxDim :
       \E dim \in {-1} \cup (1 .. ambient_dim) :
          /\ sexpr' = [ambient_dim |-> ambient_dim, dim |-> dim,
                       expr |-> OperatorBinding(o, f)]
          /\ sresult' = Mapped(GlobalToReferenceMapper(ambient_dim, dim,
                                                       OperatorBinding(o, f)), <<>>)
    /\ UNCHANGED <<commVars, cacheVars, opVars>>

-----------------------------------------------------------------------------
(* Symbolic operator processing: QuadratureDetector *)

\* QuadratureDetector.QuadStatusNotKnown, and None (no upsampler in effect); an
\* upsampler in effect is the operator itself.
QuadStatusNotKnown == [k |-> "QuadStatusNotKnown"]
NoUpsampler == [k |-> "None"]

\* isinstance(expr.op, (DiffOperatorBase, FluxOperatorBase, MassOperatorBase))
QuadratureConsumers ==
    {"DiffOperator", "StiffnessOperator", "StiffnessTOperator", "MInvSTOperator",
     "MassOperator", "InverseMassOperator", "FluxOperator", "BoundaryFluxOperator"}

\* isinstance(expr.op, (QuadratureGridUpsampler,
\* QuadratureInteriorFacesGridUpsampler))
Upsamplers == {"QuadratureGridUpsampler", "QuadratureInteriorFacesGridUpsampler"}

\* pytools.single_valued: the first item if all items equal it.
single_valued(values) ==
    IF Len(values) = 0 THEN Failed("ValueError", <<>>)
    ELSE IF \A i \in 1 .. Len(values) : values[i] = values[1]
    THEN Mapped(values[1], <<>>)
    ELSE Failed("AssertionError", <<>>)

IsKnown(v) == v # QuadStatusNotKnown

\* combine returning the first known status without comparing the others.
QuadratureDetector_combine_FirstKnown(values) ==
    IF SelectSeq(values, IsKnown) = <<>> THEN Failed("ValueError", <<>>)
    ELSE Mapped(SelectSeq(values, IsKnown)[1], <<>>)

\* QuadratureDetector.combine
QuadratureDetector_combine(values) == single_valued(SelectSeq(values, IsKnown))

\* combine over the results of the branches, which are mapped in order: the
\* first branch that raises ends the run.
CombineBranches(results) ==
    IF \E i \in 1 .. Len(results) : results[i].raised # "none"
    THEN results[CHOOSE i \in 1 .. Len(results) :
                    /\ results[i].raised # "none"
                    /\ \A j \in 1 .. (i - 1) : results[j].raised = "none"]
    ELSE QuadratureDetector_combine([i \in 1 .. Len(results) |-> results[i].value])

RECURSIVE QuadratureDetector(_)

\* QuadratureDetector.map_operator_binding; no map_* method of the mapper
\* takes an operator, so the operator of any other binding is not mapped.
QuadratureDetector_map_operator_binding(expr) ==
    IF expr.op.cls \in QuadratureConsumers THEN Mapped(NoUpsampler, <<>>)
    ELSE IF expr.op.cls \in Upsamplers THEN Mapped(expr.op, <<>>)
    ELSE CombineBranches(<<Failed("UnsupportedExpressionError", <<>>),
                           QuadratureDetector(expr.field)>>)

\* QuadratureDetector()(expr): map_variable, map_constant,
\* map_operator_binding, and CombineMapper's map_sum and map_product.
QuadratureDetector(expr) ==
    IF expr.k = "var" THEN Mapped(NoUpsampler, <<>>)
    ELSE IF expr.k = "const" THEN Mapped(QuadStatusNotKnown, <<>>)
    ELSE IF expr.k = "bind" THEN QuadratureDetector_map_operator_binding(expr)
    ELSE CombineBranches([i \in 1 .. Len(expr.children) |->
                             QuadratureDetector(expr.children[i])])

\* An upsampler to the quadrature grid of a tag.
Upsampler(cls, quadrature_tag) == Op(cls, "none", "none", -1, quadrature_tag, FALSE, "none")

\* The branches: a field, a constant, diff, mass and flux bindings, and bindings of
\* upsamplers.
DetectorAtoms ==
    {Variable("u"), Constant(2),
     OperatorBinding(DiffOperator(0), Variable("u")),
     OperatorBinding(MassOperator("vol", "vol"), Variable("u")),
     OperatorBinding(FluxOp("FluxOperator", "none", FALSE, "none"), Variable("u")),
     OperatorBinding(Upsampler("QuadratureGridUpsampler", "q1"), Variable("u")),
     OperatorBinding(Upsampler("QuadratureGridUpsampler", "q2"), Variable("u")),
     OperatorBinding(Upsampler("QuadratureInteriorFacesGridUpsampler", "q1"),
                     Variable("u"))}

\* Sums and products of branches, and sums holding such a product.
DetectorFlat ==
    UNION {{Sum(s), Product(s)} :
              s \in {q \in SeqsUpTo(DetectorAtoms, MaxOperands) : Len(q) >= 2}}

DetectorExprs ==
    DetectorAtoms \cup DetectorFlat
    \cup {Sum(<<a, Product(<<b, c>>)>>) :
             a \in DetectorAtoms, b \in DetectorAtoms, c \in DetectorAtoms}

\* One run of QuadratureDetector on an expression.
DetectQuadrature ==
    /\ sresult = NotRun
    /\ \E e \in DetectorExprs :
          /\ sexpr' = [expr |-> e]
          /\ sresult' = QuadratureDetector(e)
    /\ UNCHANGED <<commVars, cacheVars, opVars>>

-----------------------------------------------------------------------------
(* Symbolic operator processing: CommutativeConstantFoldingMapper *)

Zero == Constant(0)

\* grudge.tools.is_zero: a scalar equal to 0
is_zero(x) == x = Zero

RECURSIVE flattened_sum_from(_, _)

\* The loop of pymbolic's flattened_sum over its queue: a zero term is dropped,
\* the children of a sum are appended to the queue.
flattened_sum_from(queue, done) ==
    IF queue = <<>>
    THEN IF Len(done) = 0 THEN Zero
         ELSE IF Len(done) = 1 THEN done[1]
         ELSE Sum(done)
    ELSE IF Head(queue) = Zero THEN flattened_sum_from(Tail(queue), done)
    ELSE IF Head(queue).k = "sum"
    THEN flattened_sum_from(Tail(queue) \o Head(queue).children, done)
    ELSE flattened_sum_from(Tail(queue), Append(done, Head(queue)))

flattened_sum(terms) == flattened_sum_from(terms, <<>>)

\* is_constant: DependencyMapper finds no variable and no operator binding.
RECURSIVE is_constant(_)
is_constant(e) ==
    CASE e.k = "const" -> TRUE
      [] e.k \in {"sum", "prod"} ->
            \A i \in 1 .. Len(e.children) : is_constant(e.children[i])
      [] OTHER -> FALSE

\* reduce(op, constants) for operator.add and operator.mul
RECURSIVE ReduceConstants(_, _)
ReduceConstants(kind, values) ==
    IF Len(values) = 1 THEN values[1]
    ELSE IF kind = "sum"
    THEN ReduceConstants(kind, SubSeq(values, 1, Len(values) - 1)) + values[Len(values)]
    ELSE ReduceConstants(kind, SubSeq(values, 1, Len(values) - 1)) * values[Len(values)]

\* pymbolic.evaluate of an expression without dependencies
RECURSIVE evaluate(_)
evaluate(e) ==
    IF e.k = "const" THEN e.n
    ELSE ReduceConstants(e.k, [i \in 1 .. Len(e.children) |-> evaluate(e.children[i])])

\* The end of fold: constructor((constant,) + nonconstants), the constructor
\* being flattened_sum or flattened_product.
FoldResult(kind, constants, nonconstants) ==
    IF kind = "sum"
    THEN flattened_sum((IF constants = <<>> THEN <<>>
                        ELSE <<Constant(ReduceConstants(kind, constants))>>)
                       \o nonconstants)
    ELSE flattened_product((IF constants = <<>> THEN <<>>
                            ELSE <<Constant(ReduceConstants(kind, constants))>>)
                           \o nonconstants)

RECURSIVE CommutativeConstantFoldingMapper(_)
RECURSIVE fold_from(_, _, _, _)

\* The loop body of fold for the folded child: the children of a child of the
\* same class go to the front of the queue, a constant is evaluated.
fold_child(kind, child, queue, constants, nonconstants) ==
    IF child.k = kind THEN fold_from(kind, child.children \o queue, constants, nonconstants)
    ELSE IF is_constant(child)
    THEN fold_from(kind, queue, Append(constants, evaluate(child)), nonconstants)
    ELSE fold_from(kind, queue, constants, Append(nonconstants, child))

\* The loop of ConstantFoldingMapperBase.fold over its queue.
fold_from(kind, queue, constants, nonconstants) ==
    IF queue = <<>> THEN FoldResult(kind, constants, nonconstants)
    ELSE fold_child(kind, CommutativeConstantFoldingMapper(Head(queue)), Tail(queue),
                    constants, nonconstants)

\* Operator.__call__: a zero operand is returned as it is.
BindOperator(op, field) == IF is_zero(field) THEN field ELSE OperatorBinding(op, field)

\* map_operator_binding binding the operator to the folded field whatever it
\* is.
ConstantFolding_map_operator_binding_KeepsZero(op, field) == OperatorBinding(op, field)

\* CommutativeConstantFoldingMapper.map_operator_binding, field being
\* self.rec(expr.field)
ConstantFolding_map_operator_binding(op, field) ==
    IF is_zero(field) THEN Zero ELSE BindOperator(op, field)

\* CommutativeConstantFoldingMapper()(expr): map_sum and map_product fold,
\* map_operator_binding annihilates a zero field, leaves are returned.
CommutativeConstantFoldingMapper(expr) ==
    IF expr.k \in {"sum", "prod"} THEN fold_from(expr.k, expr.children, <<>>, <<>>)
    ELSE IF expr.k = "bind"
    THEN ConstantFolding_map_operator_binding(
             expr.op, CommutativeConstantFoldingMapper(expr.field))
    ELSE expr

\* The operators of the bindings that are folded.
FoldingOps ==
    {MassOperator("vol", "vol"), DiffOperator(0),
     Upsampler("QuadratureGridUpsampler", "q1"),
     FluxOp("FluxOperator", "none", FALSE, "none")}

\* Fields: constants, a variable, and bindings to them.
FoldingLeaves ==
    {Zero, One, Constant(2), Variable("u")}
    \cup {OperatorBinding(DiffOperator(0), f) : f \in {Zero, Variable("u")}}

\* Sums and products of fields, flat or holding a sum or product of two.
FoldingFlat ==
    UNION {{Sum(s), Product(s)} :
              s \in {q \in SeqsUpTo(FoldingLeaves, MaxOperands) : Len(q) >= 2}}

FoldingFields ==
    FoldingLeaves \cup FoldingFlat
    \cup UNION {{Sum(<<a, Product(<<b, c>>)>>), Product(<<Sum(<<a, b>>), c>>),
                 Product(<<a, Product(<<b, c>>)>>)} :
                   a \in FoldingLeaves, b \in FoldingLeaves, c \in FoldingLeaves}

\* Bindings to these fields, and bindings to such bindings.
FoldingExprs ==
    {OperatorBinding(o, f) : o \in FoldingOps, f \in FoldingFields}
    \cup {OperatorBinding(MassOperator("vol", "vol"), OperatorBinding(o, f)) :
             o \in FoldingOps, f \in FoldingFlat}

\* One run of CommutativeConstantFoldingMapper on an operator binding.
FoldConstants ==
    /\ sresult = NotRun
    /\ \E e \in FoldingExprs :
          /\ sexpr' = [expr |-> e]
          /\ sresult' = Mapped(CommutativeConstantFoldingMapper(e), <<>>)
    /\ UNCHANGED <<commVars, cacheVars, opVars>>

-----------------------------------------------------------------------------
(* Symbolic operator processing: DerivativeJoiner *)

\* isinstance(expr.op, op.DifferentiationOperator)
IsDifferentiation(o) == o.cls = "DiffOperator"

\* grudge.symbolic.tools.is_scalar
is_scalar(e) == e.k = "const"
IsNonScalar(e) == ~is_scalar(e)

\* factor * x, the factor being a number or a product of numbers
Times(factor, x) ==
    IF factor.k = "const"
    THEN IF x.k = "const" THEN Constant(factor.n * x.n)
         ELSE IF factor = One THEN x
         ELSE IF factor = Zero THEN Zero
         ELSE Product(<<factor, x>>)
    ELSE IF x.k = "prod" THEN Product(factor.children \o x.children)
         ELSE IF x = Zero THEN Zero
         ELSE IF x = One THEN factor
         ELSE Product(Append(factor.children, x))

\* a + b of two expressions or numbers (the steps of sum(...))
Plus(a, b) ==
    IF b = Zero THEN a
    ELSE IF a = Zero THEN b
    ELSE IF a.k = "const" /\ b.k = "const" THEN Constant(a.n + b.n)
    ELSE Sum((IF a.k = "sum" THEN a.children ELSE <<a>>)
             \o (IF b.k = "sum" THEN b.children ELSE <<b>>))

\* derivatives.setdefault(operator, []).append(operand), the dictionary being
\* the sequence of its items in insertion order
AddDerivative(derivatives, operator, operand) ==
    IF \E i \in 1 .. Len(derivatives) : derivatives[i].op = operator
    THEN [i \in 1 .. Len(derivatives) |->
             IF derivatives[i].op = operator
             THEN [derivatives[i] EXCEPT !.operands = Append(@, operand)]
             ELSE derivatives[i]]
    ELSE Append(derivatives, [op |-> operator, operands |-> <<operand>>])

\* the operands of one operator are added, each times the factor
RECURSIVE AddOperands(_, _, _, _)
AddOperands(derivatives, operator, operands, factor) ==
    IF operands = <<>> THEN derivatives
    ELSE AddOperands(AddDerivative(derivatives, operator, Times(factor, Head(operands))),
                     operator, Tail(operands), factor)

\* AddSubDerivatives adding the operands without the factor.
RECURSIVE AddSubDerivatives_FactorDropped(_, _, _)
AddSubDerivatives_FactorDropped(derivatives, sub_derivatives, factor) ==
    IF sub_derivatives = <<>> THEN derivatives
    ELSE AddSubDerivatives_FactorDropped(
             AddOperands(derivatives, sub_derivatives[1].op,
                         sub_derivatives[1].operands, One),
             Tail(sub_derivatives), factor)

\* for operator, operands in sub_derivatives.items(): for operand in operands:
\* derivatives.setdefault(operator, []).append(factor*operand)
RECURSIVE AddSubDerivatives(_, _, _)
AddSubDerivatives(derivatives, sub_derivatives, factor) ==
    IF sub_derivatives = <<>> THEN derivatives
    ELSE AddSubDerivatives(
             AddOperands(derivatives, sub_derivatives[1].op,
                         sub_derivatives[1].operands, factor),
             Tail(sub_derivatives), factor)

\* What _InnerDerivativeJoiner returns, and the dictionary it was handed.
Joined(value, derivatives) == [value |-> value, derivatives |-> derivatives]

RECURSIVE DerivativeJoiner(_)
RECURSIVE InnerDerivativeJoiner(_, _)

RECURSIVE InnerJoiner_map_sum(_, _, _, _)

\* the i-th child of the sum has been mapped to r
InnerJoiner_sum_child(children, i, r, values) ==
    InnerJoiner_map_sum(children, i + 1, r.derivatives, Append(values, r.value))

\* _InnerDerivativeJoiner.map_sum over the children from the i-th on
InnerJoiner_map_sum(children, i, derivatives, values) ==
    IF i > Len(children) THEN Joined(flattened_sum(values), derivatives)
    ELSE InnerJoiner_sum_child(children, i,
                               InnerDerivativeJoiner(children[i], derivatives), values)

\* _InnerDerivativeJoiner.map_product with one non-scalar factor, sub being
\* what self.rec(nonscalar, sub_derivatives) gave
InnerJoiner_scaled(factor, sub, derivatives) ==
    Joined(Times(factor, sub.value),
           AddSubDerivatives(derivatives, sub.derivatives, factor))

\* _InnerDerivativeJoiner.map_product
InnerJoiner_map_product(expr, derivatives) ==
    IF Len(SelectSeq(expr.children, IsNonScalar)) # 1
    THEN Joined(DerivativeJoiner(expr), derivatives)
    ELSE InnerJoiner_scaled(
             flattened_product(SelectSeq(expr.children, is_scalar)),
             InnerDerivativeJoiner(SelectSeq(expr.children, IsNonScalar)[1], <<>>),
             derivatives)

\* _InnerDerivativeJoiner()(expr, derivatives)
InnerDerivativeJoiner(expr, derivatives) ==
    IF expr.k = "bind" /\ IsDifferentiation(expr.op)
    THEN Joined(Zero, AddDerivative(derivatives, expr.op, expr.field))
    ELSE IF expr.k = "sum" THEN InnerJoiner_map_sum(expr.children, 1, derivatives, <<>>)
    ELSE IF expr.k = "prod" THEN InnerJoiner_map_product(expr, derivatives)
    ELSE Joined(DerivativeJoiner(expr), derivatives)

\* sum(self.rec(operand) for operand in operands), acc being the sum so far
RECURSIVE JoinedOperand(_, _)
JoinedOperand(operands, acc) ==
    IF operands = <<>> THEN acc
    ELSE JoinedOperand(Tail(operands), Plus(acc, DerivativeJoiner(Head(operands))))

\* new_children.insert(0, operator(sum(...))) for every item of derivatives
RECURSIVE InsertJoined(_, _)
InsertJoined(derivatives, new_children) ==
    IF derivatives = <<>> THEN new_children
    ELSE InsertJoined(Tail(derivatives),
                      <<BindOperator(derivatives[1].op,
                                     JoinedOperand(derivatives[1].operands, Zero))>>
                      \o new_children)

\* invoke_idj and the loop over the children of DerivativeJoiner.map_sum, r
\* being what idj gave for the i-th child
RECURSIVE Joiner_children(_, _, _, _)
Joiner_child(children, i, r, derivatives, new_children) ==
    IF r.derivatives = <<>>
    THEN Joiner_children(children, i + 1, derivatives, Append(new_children, children[i]))
    ELSE Joiner_children(children, i + 1,
                         AddSubDerivatives(derivatives, r.derivatives, One),
                         Append(new_children, r.value))

Joiner_children(children, i, derivatives, new_children) ==
    IF i > Len(children)
    THEN flattened_sum(InsertJoined(derivatives, new_children))
    ELSE Joiner_child(children, i, InnerDerivativeJoiner(children[i], <<>>),
                      derivatives, new_children)

\* DerivativeJoiner.map_sum
DerivativeJoiner_map_sum(expr) == Joiner_children(expr.children, 1, <<>>, <<>>)

\* DerivativeJoiner()(expr): map_sum, and IdentityMapper for the rest
DerivativeJoiner(expr) ==
    IF expr.k = "sum" THEN DerivativeJoiner_map_sum(expr)
    ELSE IF expr.k = "prod"
    THEN Product([i \in 1 .. Len(expr.children) |-> DerivativeJoiner(expr.children[i])])
    ELSE IF expr.k = "quot"
    THEN Quotient(DerivativeJoiner(expr.num), DerivativeJoiner(expr.den))
    ELSE IF expr.k = "bind"
    THEN OperatorBinding(expr.op, DerivativeJoiner(expr.field))
    ELSE expr

\* The terms of the sums: derivatives along two axes, with and without a
\* scalar factor, a field, a derivative in a product of two fields, in a
\* quotient and under a mass operator, and a scaled sum holding a derivative.
JoinerTerms ==
    {OperatorBinding(DiffOperator(0), Variable("u")),
     OperatorBinding(DiffOperator(0), Variable("v")),
     OperatorBinding(DiffOperator(1), Variable("u")),
     Product(<<Constant(2), OperatorBinding(DiffOperator(0), Variable("u"))>>),
     Variable("u"),
     Product(<<Variable("u"), OperatorBinding(DiffOperator(0), Variable("v"))>>),
     Quotient(OperatorBinding(DiffOperator(0), Variable("u")), Variable("v")),
     OperatorBinding(MassOperator("vol", "vol"),
                     OperatorBinding(DiffOperator(0), Variable("u"))),
     Product(<<Constant(3),
               Sum(<<OperatorBinding(DiffOperator(1), Variable("v")), Variable("u")>>)>>)}

JoinerExprs == {Sum(s) : s \in {q \in SeqsUpTo(JoinerTerms, MaxTerms) : Len(q) >= 2}}

\* One run of DerivativeJoiner on a sum.
JoinDerivatives ==
    /\ sresult = NotRun
    /\ \E e \in JoinerExprs :
          /\ sexpr' = [expr |-> e]
          /\ sresult' = Mapped(DerivativeJoiner(e), <<>>)
    /\ UNCHANGED <<commVars, cacheVars, opVars>>

-----------------------------------------------------------------------------
(* Symbolic operator processing: InverseMassContractor *)

\* op.InverseMassOperator(), op.DifferentiationOperator(xyz_axis),
\* op.MInvSTOperator(xyz_axis)
InverseMassOp == DDOp("InverseMassOperator", "default", "default", -1)
DifferentiationOperator(xyz_axis) == DDOp("DiffOperator", "default", "default", xyz_axis)
MInvSTOperator(xyz_axis) == DDOp("MInvSTOperator", "default", "default", xyz_axis)

\* What _InnerInverseMassContractor returns, and its extra_operator_count.
Contracted(value, extra_operator_count) ==
    [value |-> value, extra_operator_count |-> extra_operator_count]

RECURSIVE InverseMassContractor(_)
RECURSIVE InnerInverseMassContractor(_, _)

\* _InnerInverseMassContractor.map_operator_binding; the flux branches assert
\* that the flux is not a lift (no binding handed to the mapper holds one).
InnerContractor_map_operator_binding(binding, count) ==
    IF binding.op.cls = "MassOperator" THEN Contracted(binding.field, count)
    ELSE IF binding.op.cls = "StiffnessOperator"
    THEN Contracted(BindOperator(DifferentiationOperator(binding.op.xyz_axis),
                                 InverseMassContractor(binding.field)), count)
    ELSE IF binding.op.cls = "StiffnessTOperator"
    THEN Contracted(BindOperator(MInvSTOperator(binding.op.xyz_axis),
                                 InverseMassContractor(binding.field)), count)
    ELSE IF binding.op.cls \in {"FluxOperator", "BoundaryFluxOperator"}
    THEN Contracted(BindOperator([binding.op EXCEPT !.is_lift = TRUE],
                                 InverseMassContractor(binding.field)), count)
    ELSE Contracted(BindOperator(InverseMassOp, InverseMassContractor(binding)),
                    count + 1)

\* tuple(self.rec(child) for child in children) from the i-th child on, scalar
\* factors being kept if keep_scalars (do_map of map_product)
RECURSIVE InnerContractor_children(_, _, _, _, _)

InnerContractor_child(children, i, keep_scalars, r, done) ==
    InnerContractor_children(children, i + 1, keep_scalars, r.extra_operator_count,
                             Append(done, r.value))

InnerContractor_children(children, i, keep_scalars, count, done) ==
    IF i > Len(children) THEN Contracted(done, count)
    ELSE IF keep_scalars /\ is_scalar(children[i])
    THEN InnerContractor_children(children, i + 1, keep_scalars, count,
                                  Append(done, children[i]))
    ELSE InnerContractor_child(children, i, keep_scalars,
                               InnerInverseMassContractor(children[i], count), done)

\* expr.__class__(children) of map_sum and map_product
Rebuilt(kind, r) ==
    Contracted([k |-> kind, children |-> r.value], r.extra_operator_count)

\* _InnerInverseMassContractor.map_product
InnerContractor_map_product(expr, count) ==
    IF Len(SelectSeq(expr.children, IsNonScalar)) > 1
    THEN Contracted(BindOperator(InverseMassOp, InverseMassContractor(expr)),
                    count + 1)
    ELSE Rebuilt("prod", InnerContractor_children(expr.children, 1, TRUE, count, <<>>))

\* _InnerInverseMassContractor(outer)(expr), count being extra_operator_count:
\* map_constant, map_algebraic_leaf, map_operator_binding, map_sum, map_product
InnerInverseMassContractor(expr, count) ==
    IF expr.k = "const"
    THEN IF is_zero(expr) THEN Contracted(Zero, count)
         ELSE Contracted(OperatorBinding(InverseMassOp, InverseMassContractor(expr)),
                         count)
    ELSE IF expr.k = "bind" THEN InnerContractor_map_operator_binding(expr, count)
    ELSE IF expr.k = "sum"
    THEN Rebuilt("sum", InnerContractor_children(expr.children, 1, FALSE, count, <<>>))
    ELSE IF expr.k = "prod" THEN InnerContractor_map_product(expr, count)
    ELSE Contracted(OperatorBinding(InverseMassOp, InverseMassContractor(expr)),
                    count)

\* The choice of InverseMassContractor.map_operator_binding between the
\* proposed result and the binding it was given.
ContractorChoice(binding, proposed) ==
    IF proposed.extra_operator_count > 1
    THEN BindOperator(binding.op, InverseMassContractor(binding.field))
    ELSE proposed.value

\* InverseMassContractor.map_operator_binding
InverseMassContractor_map_operator_binding(binding) ==
    IF binding.op.cls = "InverseMassOperator"
    THEN ContractorChoice(binding, InnerInverseMassContractor(binding.field, 0))
    ELSE BindOperator(binding.op, InverseMassContractor(binding.field))

\* InverseMassContractor()(expr): map_operator_binding, and IdentityMapper for
\* sums and products
InverseMassContractor(expr) ==
    IF expr.k = "bind" THEN InverseMassContractor_map_operator_binding(expr)
    ELSE IF expr.k \in {"sum", "prod"}
    THEN [k |-> expr.k,
          children |-> [i \in 1 .. Len(expr.children) |->
                           InverseMassContractor(expr.children[i])]]
    ELSE expr

\* What the inverse mass operator is bound to: a field, a constant, bindings
\* of the operators it is contracted with and of one it is not, a mass binding
\* whose operand holds an inverse mass of a mass, ...
ContractorTerms ==
    {Variable("u"), Constant(2),
     OperatorBinding(MassOperator("default", "default"), Variable("u")),
     OperatorBinding(DDOp("StiffnessTOperator", "default", "default", 0), Variable("u")),
     OperatorBinding(DDOp("StiffnessOperator", "default", "default", 0), Variable("v")),
     OperatorBinding(DiffOperator(0), Variable("v")),
     OperatorBinding(FluxOp("FluxOperator", "none", FALSE, "none"), Variable("u")),
     OperatorBinding(MassOperator("default", "default"),
         OperatorBinding(InverseMassOp,
             OperatorBinding(MassOperator("default", "default"), Variable("v"))))}

\* ... sums of these, and products with one or with two non-scalar factors.
ContractorFields ==
    ContractorTerms
    \cup {Sum(s) : s \in {q \in SeqsUpTo(ContractorTerms, MaxTerms) : Len(q) >= 2}}
    \cup {Product(<<Constant(2), t>>) : t \in ContractorTerms}
    \cup {Product(<<Variable("v"), t>>) : t \in ContractorTerms}

\* One run of InverseMassContractor on an inverse mass binding.
ContractInverseMass ==
    /\ sresult = NotRun
    /\ \E f \in ContractorFields :
          /\ sexpr' = [expr |-> OperatorBinding(InverseMassOp, f)]
          /\ sresult' = Mapped(InverseMassContractor(
                                   OperatorBinding(InverseMassOp, f)), <<>>)
    /\ UNCHANGED <<commVars, cacheVars, opVars>>

-----------------------------------------------------------------------------
(* Symbolic operator processing: FlopCounter *)

\* A C function (sym.CFunction), e.g. sqrt
CFunction(name) == [k |-> "c_function", name |-> name]

\* FlopCounter.map_operator_binding charging one operation for the binding.
FlopCounter_map_operator_binding_UnitCost(field_flops) == field_flops + 1

\* FlopCounter.map_operator_binding, field_flops being self.rec(expr.field)
FlopCounter_map_operator_binding(field_flops) == field_flops

RECURSIVE FlopCounter(_)

\* sum(self.rec(ch) for ch in children)
RECURSIVE FlopsOfChildren(_)
FlopsOfChildren(children) ==
    IF children = <<>> THEN 0
    ELSE FlopCounter(Head(children)) + FlopsOfChildren(Tail(children))

\* FlopCounter()(expr): pymbolic's map_constant, map_variable, map_sum,
\* map_product and map_quotient, and map_operator_binding and map_c_function.
FlopCounter(expr) ==
    CASE expr.k \in {"var", "const"} -> 0
      [] expr.k = "c_function" -> 1
      [] expr.k \in {"sum", "prod"} ->
            IF expr.children = <<>> THEN 0
            ELSE Len(expr.children) - 1 + FlopsOfChildren(expr.children)
      [] expr.k = "quot" -> 1 + FlopCounter(expr.num) + FlopCounter(expr.den)
      [] expr.k = "bind" -> FlopCounter_map_operator_binding(FlopCounter(expr.field))

FlopLeaves == {Variable("u"), Constant(2), CFunction("sqrt")}

\* Sums, products and quotients of leaves, and bindings to a leaf.
FlopFlat ==
    UNION {{Sum(s), Product(s)} :
              s \in {q \in SeqsUpTo(FlopLeaves, MaxOperands) : Len(q) >= 2}}
    \cup {Quotient(a, b) : a \in FlopLeaves, b \in FlopLeaves}
    \cup {OperatorBinding(o, a) :
             o \in {MassOperator("vol", "vol"), DiffOperator(0)}, a \in FlopLeaves}

\* These, bindings to them, and sums of two of them.
FlopExprs ==
    FlopLeaves \cup FlopFlat
    \cup {OperatorBinding(o, f) :
             o \in {MassOperator("vol", "vol"), DiffOperator(0)}, f \in FlopFlat}
    \cup {Sum(<<a, b>>) : a \in FlopFlat, b \in FlopFlat}

\* One run of FlopCounter on an expression.
CountFlops ==
    /\ sresult = NotRun
    /\ \E e \in FlopExprs :
          /\ sexpr' = [expr |-> e]
          /\ sresult' = Mapped(FlopCounter(e), <<>>)
    /\ UNCHANGED <<commVars, cacheVars, opVars>>

-----------------------------------------------------------------------------
(* Specifications *)

\* No mapper is applied to any expression.
SymQuiet == sexpr = <<>> /\ sresult = <<>>

InitComm == CommInit /\ CacheInit /\ OpsQuiet /\ SymQuiet
SpecComm == InitComm /\ [][CommNext]_vars

InitCommRounds == CommRoundsInit /\ CacheInit /\ OpsQuiet /\ SymQuiet
SpecCommRounds == InitCommRounds /\ [][CommNext]_vars

\* Every rank keeps running its program, and the communication layer completes
\* every send/receive pair that has both been posted.
CommFair ==
    /\ \A r \in Ranks :
          WF_vars(\/ Call(r) \/ ScalarField(r) \/ Post(r) \/ FinishRecvWait(r)
                  \/ FinishReassemble(r) \/ FinishSendWait(r) \/ ScalarReturn(r))
    /\ \A s \in Ranks, d \in Ranks : WF_vars(Deliver(s, d))

SpecCommLive == InitComm /\ [][CommNext]_vars /\ CommFair

InitCache == CacheInit /\ CommQuiet /\ OpsQuiet /\ SymQuiet
SpecCache == InitCache /\ [][CacheNext]_vars

SpecCacheConc == InitCache /\ [][CacheConcNext]_vars

InitOps == OpsQuiet /\ CacheInit /\ CommQuiet /\ SymQuiet
SpecOps == InitOps /\ [][OpsNext]_vars

SpecDiv == InitOps /\ [][DivNext]_vars

InitSym == SymQuiet /\ OpsQuiet /\ CacheInit /\ CommQuiet
SpecBinder == InitSym /\ [][BindOperators]_vars

SpecSpecializer == InitSym /\ [][SpecializeOperators]_vars

SpecGlobalToReference == InitSym /\ [][MapGlobalToReference]_vars

SpecQuadratureDetector == InitSym /\ [][DetectQuadrature]_vars

SpecConstantFolding == InitSym /\ [][FoldConstants]_vars

SpecDerivativeJoiner == InitSym /\ [][JoinDerivatives]_vars

SpecInverseMassContractor == InitSym /\ [][ContractInverseMass]_vars

SpecFlopCounter == InitSym /\ [][CountFlops]_vars

SpecFaceMass == InitCache /\ [][FaceMassNext]_vars

SpecNorm == InitOps /\ [][Norm]_vars

-----------------------------------------------------------------------------
(* Claims about the distributed trace-pair exchange *)

\* What rank r must get as exterior from rank q for volume field fld.
ReceivedFrom(q, r, fld) == BdryData(q, r, fld, "swapped")

Returned(r) == pc[r] = "idle" /\ ret[r].round >= 1

\* C1: in every rank-boundary exchange, finish() returns from the wait on the
\* receive only when the receive has completed, reads the receive buffer
\* (unflatten and boundary swap) only after that wait, waits on the send only
\* after the reassembly, and returns the trace pair only after both waits; the
\* exterior of every trace pair is built from received data, never from a
\* buffer whose receive has not completed.
C1_FinishOrder ==
    \A r \in Ranks :
        /\ \A x \in 1 .. Len(rbcomms[r]) :
              LET c == rbcomms[r][x]
              IN  /\ c.recvWaited => c.recvDone
                  /\ c.built => c.recvWaited /\ c.swapped = ReceivedFrom(c.remote, r, c.local_dof_array.fld)
                  /\ c.sendWaited => c.built /\ c.sendDone
                  /\ (x <= Len(tpairs[r])) <=> c.sendWaited
        /\ pc[r] = "reassemble" => rbcomms[r][fin[r]].recvWaited
        /\ pc[r] = "send_wait" => rbcomms[r][fin[r]].built
        /\ \A j \in 1 .. Len(tpairs[r]) :
              tpairs[r][j].ext.t = "dof" => tpairs[r][j].ext.layout = "swapped"

\* C1 witness: a finish() has returned its trace pair after a send that
\* completed only when the remote side received it.
C1_Witness ==
    \E r \in Ranks : \E x \in 1 .. Len(rbcomms[r]) :
        /\ rbcomms[r][x].sendWaited
        /\ Len(tpairs[r]) >= x
        /\ sendq[r][rbcomms[r][x].remote] = <<>>

\* C2: every send and receive issued by a call with tag t given uses the
\* communication tag 1273 + t, for a single field and for an object array; two
\* calls with different given tags never use the same communication tag.
C2_TagOffset ==
    /\ \A m \in issued :
          calls[m.round].tag # NoTag => m.tag = base_tag + calls[m.round].tag[1]
    /\ \A m1 \in issued, m2 \in issued :
          (/\ calls[m1.round].tag # NoTag
           /\ calls[m2.round].tag # NoTag
           /\ calls[m1.round].tag # calls[m2.round].tag) => m1.tag # m2.tag

C4_NumberShortCircuit ==
    \A r \in Ranks :
        (Returned(r) /\ calls[ret[r].round].kind = "num") =>
            LET k == ret[r].round
                v == ret[r].value
            IN  /\ Len(v) = Len(connected[r])
                /\ \A j \in 1 .. Len(v) :
                      /\ v[j].dd = connected[r][j]
                      /\ v[j].int = NumberOf(k, 0)
                      /\ v[j].ext = NumberOf(k, 0)
                /\ \A m \in issued : ~(m.rank = r /\ m.round = k)

\* C4 witness: a rank with a connected rank has returned from a call with a number.
C4_Witness ==
    \E r \in Ranks :
        /\ Returned(r)
        /\ calls[ret[r].round].kind = "num"
        /\ Len(ret[r].value) >= 1

-----------------------------------------------------------------------------
(* Claims about the reference-element matrix cache *)

\* The element groups of a and b have pairwise equal discretization_key().
SameKeys(a, b) ==
    /\ Len(a) = Len(b)
    /\ \A i \in 1 .. Len(a) : discretization_key(a[i]) = discretization_key(b[i])

\* No two computations have succeeded for one kind and one key.
ComputedOncePerKey ==
    \A o1 \in created, o2 \in created :
        (o1.fn = o2.fn /\ SameKeys(o1.args, o2.args)) => o1 = o2

\* C5: for every reference-matrix kind and every key the matrix is computed at
\* most once per array context, also when two consumers make their first
\* request for the key concurrently, each finding the entry missing before the
\* other has inserted it.
C5_ComputedAtMostOnce ==
    \A fn \in Kinds : \A a \in RequestArgs(fn) :
        Cardinality({o \in created : o.fn = fn /\ SameKeys(o.args, a)}) <= 1

\* Requests of one kind by groups of equal keys were all answered with one object.
ServedIdentical ==
    \A s1 \in served, s2 \in served :
        (s1.fn = s2.fn /\ SameKeys(s1.args, s2.args)) => s1.obj = s2.obj

\* Every stored entry is still stored, with the same object, after the step.
EntriesKept ==
    \A id \in Identifiers : \A key \in DOMAIN memo[id] :
        key \in DOMAIN memo'[id] /\ memo'[id][key] = memo[id][key]

\* C6: with one caller making its requests one after the other, every request
\* of one kind by element groups of equal discretization_key() -- distinct group
\* objects included -- is answered with the identical object, the one in the
\* cache; no key is computed a second time; and a stored entry is never
\* replaced or removed.
C6_SequentialIdentity ==
    /\ [](/\ ServedIdentical
          /\ ComputedOncePerKey
          /\ \A s \in served : \E key \in DOMAIN memo[Identifier(s.fn)] :
                memo[Identifier(s.fn)][key] = s.obj)
    /\ [][EntriesKept]_vars

\* C6 witness: a request was answered from the cache with the object computed
\* for another group object of equal key.
C6_Witness ==
    /\ outcome[1].status = "returned"
    /\ outcome[1].hit
    /\ outcome[1].obj.args # outcome[1].args
    /\ SameKeys(outcome[1].obj.args, outcome[1].args)
    /\ \E s \in served : s.fn = outcome[1].fn /\ s.args = outcome[1].obj.args
                         /\ s.obj = outcome[1].obj

\* The step in which an exception reaches consumer c.
Fails(c) == outcome[c].status # "raised" /\ outcome'[c].status = "raised"

\* Consumer c is looking up a key that has no entry.
Misses(c) ==
    /\ stack[c] # <<>>
    /\ Top(c).ph = "lookup"
    /\ KeyOf(Top(c).fn, Top(c).args) \notin DOMAIN memo[Identifier(Top(c).fn)]

\* C7: a failing computation hands its error to the caller that triggered it
\* (every call on the way is left) and stores no entry; every entry of the cache
\* is the result of a successful computation; and a request for a key without
\* entry -- in particular the next one after a failure -- does not return before
\* it has run the computation.
C7_FailureNotCached ==
    /\ [](/\ \A c \in Consumers :
                outcome[c].status = "raised" =>
                    /\ stack[c] = <<>>
                    /\ [fn |-> outcome[c].fn, args |-> outcome[c].args] \in outcome[c].unwound
          /\ \A id \in Identifiers : \A key \in DOMAIN memo[id] : memo[id][key] \in created)
    /\ [][/\ \A c \in Consumers : Fails(c) => memo' = memo
          /\ \A c \in Consumers :
                (Misses(c) /\ stack'[c] # stack[c]) =>
                    /\ served' = served
                    /\ Len(stack'[c]) >= Len(stack[c])
                    /\ stack'[c][Len(stack[c])].ph \in {"compute", "wait_mass"}]_vars

\* C7 witness: a request whose computation had failed before was made again,
\* ran the computation and returned its result.
C7_Witness ==
    /\ outcome[1].status = "returned"
    /\ ~outcome[1].hit
    /\ [fn |-> outcome[1].fn, args |-> outcome[1].args] \in failures
    /\ outcome[1].obj \in created

-----------------------------------------------------------------------------
(* Claims about the elementwise operators *)

InverseMassApplied == lastApply.op \in {"inverse_mass", "_apply_inverse_mass_operator"}

\* C8: the inverse-mass operator applied with an output descriptor different
\* from the input descriptor raises the precondition error (ValueError) with no
\* discretization, matrix or geometric factor fetched and no result produced;
\* applied with equal descriptors it does not raise this error.
C8_DescriptorsMustMatch ==
    InverseMassApplied =>
        IF lastApply.dd_out # lastApply.dd_in
        THEN /\ lastApply.raised = "ValueError"
             /\ lastApply.log = <<>>
             /\ lastApply.value = NoValue
        ELSE lastApply.raised # "ValueError"

\* C8 witness: the operator was applied to a DOFArray with differing
\* descriptors and raised.
C8_Witness ==
    /\ lastApply.op = "_apply_inverse_mass_operator"
    /\ lastApply.dd_out # lastApply.dd_in
    /\ lastApply.vec.t = "dof"
    /\ lastApply.raised = "ValueError"

\* The entry the array context holds under an identifier and a key, if any.
Cached(id, key) == IF key \in DOMAIN memo[id] THEN memo[id][key] ELSE NoMatrix

\* The reference matrices the array context holds for the group grp.
CachedInverseMass(grp) ==
    Cached("reference_inverse_mass_matrix", <<discretization_key(grp)>>)
CachedMass(grp) ==
    Cached("reference_mass_matrix", <<discretization_key(grp), discretization_key(grp)>>)

AllAffine(dc) == \A i \in 1 .. NumGroups(dc) : dc.affine[i]

\* What the rule of C9 prescribes for group i of the discretization of dd.
SelectedFormula(dc, dd, vec, i) ==
    IF AllAffine(dc)
    THEN Einsum("ij,ej,ej->ei",
                <<CachedInverseMass(GroupAt(dd, i)), InvAreaElement(dd, i), VecGroup(vec, i)>>)
    ELSE Einsum("ik,km,em,mj,ej->ei",
                <<CachedInverseMass(GroupAt(dd, i)), CachedMass(GroupAt(dd, i)),
                  InvAreaElement(dd, i), CachedInverseMass(GroupAt(dd, i)),
                  VecGroup(vec, i)>>)

\* The value val is, group by group, what the rule prescribes for vec.
FollowsSelectedFormula(val, dc, dd, vec) ==
    /\ val.t = "dof_result"
    /\ Len(val.data) = NumGroups(dc)
    /\ \A i \in 1 .. NumGroups(dc) :
          /\ val.data[i] = SelectedFormula(dc, dd, vec, i)
          /\ CachedInverseMass(GroupAt(dd, i)) # NoMatrix
          /\ AllAffine(dc) \/ CachedMass(GroupAt(dd, i)) # NoMatrix

\* C9: inverse_mass chooses its formula once for the whole discretization: with
\* every group affine each group's result is the reference inverse-mass matrix
\* applied to (1/jacobian * vec); with at least one group non-affine every
\* group, the affine ones included, is ref_Minv * ref_M * (1/jac) * ref_Minv
\* applied to vec; no group is computed with the other formula.
C9_FormulaSelection ==
    (InverseMassApplied /\ lastApply.raised = "none") =>
        IF lastApply.vec.t = "arr"
        THEN /\ lastApply.value.t = "arr"
             /\ Len(lastApply.value.data) = Len(lastApply.vec.data)
             /\ \A k \in 1 .. Len(lastApply.vec.data) :
                   FollowsSelectedFormula(lastApply.value.data[k], lastApply.dc,
                                          lastApply.dd_in, lastApply.vec.data[k])
        ELSE FollowsSelectedFormula(lastApply.value, lastApply.dc, lastApply.dd_in,
                                    lastApply.vec)

\* C9 witness: inverse_mass has returned for a discretization with an affine
\* and a non-affine group.
C9_Witness ==
    /\ lastApply.op = "inverse_mass"
    /\ lastApply.raised = "none"
    /\ lastApply.vec.t = "dof"
    /\ \E i, j \in 1 .. NumGroups(lastApply.dc) :
          lastApply.dc.affine[i] /\ ~lastApply.dc.affine[j]

\* C10: mass, inverse_mass and face_mass applied to a plain number return that
\* number with nothing fetched, and applied to an object array they return an
\* object array of the same shape with one entry per entry of the argument.
C10_ScalarPassThrough ==
    lastApply.op \in {"mass", "inverse_mass", "face_mass"} =>
        /\ lastApply.vec.t = "num" =>
              /\ lastApply.raised = "none"
              /\ lastApply.value = lastApply.vec
              /\ lastApply.log = <<>>
        /\ (lastApply.vec.t = "arr" /\ lastApply.raised = "none") =>
              /\ lastApply.value.t = "arr"
              /\ lastApply.value.shape = lastApply.vec.shape
              /\ Len(lastApply.value.data) = Len(lastApply.vec.data)

-----------------------------------------------------------------------------
(* Claims about the divergence *)

DivApplied == lastApply.op \in {"local_div", "weak_local_div"} /\ lastApply.vec.t = "arr"

\* The last axis of the argument is as long as the ambient dimension.
DivDimensionsMatch ==
    lastApply.vec.shape[Len(lastApply.vec.shape)] = lastApply.dc.ambient_dim

\* The derivative along xyz_axis of the field comp, as the applied operator
\* (local_d_dx or weak_local_d_dx) yields it.
DerivativeAlong(xyz_axis, comp) ==
    DiffFunc(lastApply.op, CacheState, lastApply.dc, lastApply.dd_in, xyz_axis, comp).value

\* The sum over i of the derivative along axis i of component i, for the r-th
\* leading index.
SumOfDerivatives(r) ==
    LET n == lastApply.dc.ambient_dim
    IN  PySum([i \in 1 .. n |-> DerivativeAlong(i - 1, lastApply.vec.data[(r - 1) * n + i])])

\* The divergence returned is that sum for every leading index.
DivIsSumOfDerivatives ==
    /\ lastApply.raised = "none"
    /\ IF Len(lastApply.vec.shape) = 1 THEN lastApply.value = SumOfDerivatives(1)
       ELSE LET leading == SubSeq(lastApply.vec.shape, 1, Len(lastApply.vec.shape) - 1)
            IN  /\ lastApply.value.t = "arr"
                /\ lastApply.value.shape = leading
                /\ Len(lastApply.value.data) = Prod(leading)
                /\ \A r \in 1 .. Prod(leading) :
                      lastApply.value.data[r] = SumOfDerivatives(r)

-----------------------------------------------------------------------------
(* Claims about the reductions *)

NormApplies == lastApply.op = "norm"

\* The norm of every component of the object array norm was applied to, taken
\* with the order and the descriptor of the call.
NormsOfComponents ==
    [i \in 1 .. Len(lastApply.vec.data) |->
        FieldNorm(lastApply.p, lastApply.dd_in, lastApply.vec.data[i])]

\* C12: norm fails with the unsupported-order error (a ValueError) for every
\* order other than 2 and infinity, for a single field and for an object array
\* of fields; for order 2 an object array (of at least one field) gets the
\* square root of the sum of the squared component norms, for order infinity
\* the maximum of the component norms.
C12_NormOrders ==
    NormApplies =>
        /\ lastApply.p \notin {"2", "inf"} =>
              lastApply.raised = "ValueError" /\ lastApply.value = NoValue
        /\ (lastApply.p = "2" /\ lastApply.vec.t = "arr") =>
              /\ lastApply.raised = "none"
              /\ lastApply.value = SquareRoot(PySum(SquareAll(NormsOfComponents)))
        /\ (lastApply.p = "inf" /\ lastApply.vec.t = "arr") =>
              /\ lastApply.raised = "none"
              /\ lastApply.value = PyMax(NormsOfComponents)
        /\ (lastApply.p \in {"2", "inf"} /\ lastApply.vec.t # "arr") =>
              /\ lastApply.raised = "none"
              /\ lastApply.value = FieldNorm(lastApply.p, lastApply.dd_in, lastApply.vec)

\* C12 witness: after the order-2 norm of some argument, an object array of two
\* fields was given an unsupported order and the call failed.
C12_Witness ==
    /\ NormApplies
    /\ ncalls = 2
    /\ <<"2", DD_VOLUME>> \in normMemo
    /\ lastApply.vec.t = "arr"
    /\ Len(lastApply.vec.data) = 2
    /\ lastApply.p = "1"
    /\ lastApply.raised = "ValueError"

-----------------------------------------------------------------------------
(* Claims about reference_face_mass_matrix *)

\* The face quadrature rule get_ref_face_mass_mat integrates with is exact to
\* less than it has to be: less than n + m with a nodal face basis, less than
\* the face order m without one.
FaceRuleTooInexact(face, vol) ==
    LET f == GroupInfo(face)
        n == GroupInfo(vol).order
        m == f.order
        exact_to == IF f.quadrature THEN f.exact_to ELSE 2 * Max(n, m)
    IN  IF f.nodal THEN exact_to < n + m ELSE exact_to < m

FaceMassRequested == outcome[1].fn = "face_mass"

\* C13: reference_face_mass_matrix fails with a configuration error
\* (ValueError) and leaves no cache entry whenever the face quadrature rule is
\* exact to less than n + m with a nodal face basis, or to less than m without
\* one; in every other case what it returns has the shape (volume dofs, number
\* of faces, face dofs).  A failure of a collaborator is neither.
C13_FaceMassExactness ==
    /\ \A args \in FaceRequestArgs :
          FaceRuleTooInexact(args[1], args[2]) =>
              KeyOf("face_mass", args) \notin DOMAIN memo[Identifier("face_mass")]
    /\ FaceMassRequested =>
          LET o == outcome[1]
              bad == FaceRuleTooInexact(o.args[1], o.args[2])
          IN  /\ bad => o.status = "raised"
              /\ (bad /\ o.err # "Exception") => o.err = "ValueError"
              /\ ~bad => o.err \in {"none", "Exception"}
              /\ (~bad /\ o.status = "returned") =>
                    /\ Len(o.obj.shape) = 3
                    /\ o.obj.shape[1] = GroupInfo(o.args[2]).nunit_dofs
                    /\ o.obj.shape[2] = GroupInfo(o.args[2]).nfaces
                    /\ o.obj.shape[3] = GroupInfo(o.args[1]).nunit_dofs

\* C13 witness: with a nodal face group whose rule is exact to at least m but
\* to less than n + m the request has failed on the exactness check, after an
\* earlier request had returned a matrix.
C13_Witness ==
    /\ FaceMassRequested
    /\ outcome[1].args[1] = "FQnodal"
    /\ GroupInfo("FQnodal").exact_to >= GroupInfo("FQnodal").order
    /\ outcome[1].status = "raised"
    /\ outcome[1].err = "ValueError"
    /\ memo[Identifier("face_mass")] # <<>>

-----------------------------------------------------------------------------
(* Claims about OperatorBinder *)

BinderRan == sresult # NotRun /\ sexpr.k = "prod" /\ Len(sexpr.children) > 0

RECURSIVE CountFactors(_)

\* The number of factors a sequence of factors comes to, parenthesized
\* products counted by their factors and factors of one not at all.
CountFactors(factors) ==
    IF factors = <<>> THEN 0
    ELSE CountFactors(Tail(factors)) +
         (IF Head(factors) = One THEN 0
          ELSE IF Head(factors).k = "prod" THEN CountFactors(Head(factors).children)
          ELSE 1)

\* What processing the remaining factors of the product on their own gives.
RemainingProcessed == OperatorBinder(flattened_product(Tail(sexpr.children)))

\* C16: when the left-most factor of a product is an operator and the remaining
\* factors come to a product of more than one factor, OperatorBinder issues a
\* warning and still returns one binding of that operator to the whole
\* remaining product, itself processed; when one factor remains (or none) the
\* binding is returned without a warning.
C16_AmbiguousBindingWarns ==
    (BinderRan /\ IsOperator(sexpr.children[1])) =>
        /\ sresult.raised = "none"
        /\ sresult.value = OperatorBinding(sexpr.children[1], RemainingProcessed.value)
        /\ IF CountFactors(Tail(sexpr.children)) > 1
           THEN /\ Len(sresult.warnings) = Len(RemainingProcessed.warnings) + 1
                /\ sresult.warnings[1].op = sexpr.children[1]
                /\ Tail(sresult.warnings) = RemainingProcessed.warnings
           ELSE sresult.warnings = <<>>

\* C16 witness: an operator followed by another operator and a parenthesized
\* product was bound with two warnings.
C16_Witness ==
    /\ BinderRan
    /\ Len(sexpr.children) = 3
    /\ IsOperator(sexpr.children[1])
    /\ IsOperator(sexpr.children[2])
    /\ sexpr.children[3].k = "prod"
    /\ Len(sresult.warnings) = 2
    /\ sresult.value.k = "bind"
    /\ sresult.value.field.k = "bind"

RECURSIVE ContainsBinding(_)

\* An operator binding occurs in the expression.
ContainsBinding(e) ==
    IF e.k = "bind" THEN TRUE
    ELSE IF e.k = "prod" THEN \E i \in 1 .. Len(e.children) : ContainsBinding(e.children[i])
    ELSE FALSE

\* The product has no parenthesized factors.
FlatProduct == \A i \in 1 .. Len(sexpr.children) : sexpr.children[i].k # "prod"

\* C18: only the left-most factor of a product is interpreted as an operator:
\* when the first factor of a product (without parenthesized factors) is not
\* an operator, no operator at a later position is turned into a binding.
C18_OnlyLeftmostBinds ==
    (BinderRan /\ FlatProduct /\ ~IsOperator(sexpr.children[1])) =>
        ~ContainsBinding(sresult.value)

-----------------------------------------------------------------------------
(* Claims about OperatorSpecializer *)

SpecializerRan == sresult # NotRun

\* e binds a restriction to the boundary to a field the type map tags as
\* quadrature data.
RestrictsQuadrature(e) ==
    /\ e.k = "bind"
    /\ e.op.cls = "RestrictToBoundary"
    /\ TypeOf(sexpr.typedict, e.field).repr = "quad"

\* The binding is a quadrature upsampler of a boundary vector, whose operand
\* OperatorSpecializer hands back without processing it.
UpsamplesBoundaryVector(e) ==
    /\ e.op.cls = "QuadratureGridUpsampler"
    /\ TypeOf(sexpr.typedict, e.field).boundary_tag # "none"

FluxBound == SpecializerRan /\ sexpr.expr.op.cls \in FluxClasses

\* The representation tags of the operands of the flux, every component of the
\* interior field and of the boundary field of a boundary pair among them.
FluxOperandTags ==
    [i \in 1 .. Len(FluxOperands(sexpr.expr.field)) |->
        ReprTag(TypeOf(sexpr.typedict, FluxOperands(sexpr.expr.field)[i]))]

\* C15: for a flux binding every operand is inspected: when two operands carry
\* different representation tags the run fails and no flux operator is
\* produced, and a quadrature flux operator is produced only when all operands
\* carry the quadrature tag it is given.
C15_FluxOperandsAgree ==
    FluxBound =>
        /\ (\E i, j \in DOMAIN FluxOperandTags : FluxOperandTags[i] # FluxOperandTags[j]) =>
              sresult.raised # "none"
        /\ ((\A i \in DOMAIN FluxOperandTags : FluxOperandTags[i].repr # "none")
            /\ \E i, j \in DOMAIN FluxOperandTags : FluxOperandTags[i] # FluxOperandTags[j]) =>
              sresult.raised = "AssertionError"
        /\ (sresult.raised = "none"
            /\ sresult.value.op.cls \in {"QuadratureFluxOperator",
                                        "QuadratureBoundaryFluxOperator"}) =>
              \A i \in DOMAIN FluxOperandTags :
                  /\ FluxOperandTags[i].repr = "quad"
                  /\ FluxOperandTags[i].quadrature_tag = sresult.value.op.quadrature_tag
        /\ sresult.raised = "none" =>
              sresult.value.op.cls \in {"FluxOperator", "BoundaryFluxOperator",
                                        "QuadratureFluxOperator",
                                        "QuadratureBoundaryFluxOperator"}

\* C15 witness: the flux of a boundary pair whose interior field is an array
\* was bound, the boundary field carrying another quadrature tag than the
\* components of the array, and the run failed.
C15_Witness ==
    /\ FluxBound
    /\ sexpr.expr.field.k = "bpair"
    /\ sexpr.expr.field.field = ObjectArray(<<Variable("u"), Variable("u")>>)
    /\ sexpr.typedict["u"] = TypeInfo("quad", "q1", "none")
    /\ sexpr.typedict["v"] = TypeInfo("quad", "q2", "none")
    /\ sresult.raised = "AssertionError"

\* The Quadrature* variant of a generic mass, stiffness-transpose or
\* differentiation operator, global or reference.
QuadratureVariantOfGeneric(cls) ==
    CASE cls = "MassOperator" -> "QuadratureMassOperator"
      [] cls = "RefMassOperator" -> "RefQuadratureMassOperator"
      [] cls = "StiffnessTOperator" -> "QuadratureStiffnessTOperator"
      [] cls = "RefStiffnessTOperator" -> "RefQuadratureStiffnessTOperator"
      [] cls = "DiffOperator" -> "QuadratureDiffOperator"
      [] cls = "RefDiffOperator" -> "RefQuadratureDiffOperator"

GenericClasses == {"MassOperator", "RefMassOperator", "StiffnessTOperator",
                   "RefStiffnessTOperator", "DiffOperator", "RefDiffOperator"}

\* C19: a generic mass, stiffness-transpose or differentiation operator (global
\* or reference) bound to a field the type map tags as quadrature data is
\* replaced by its Quadrature* variant with the quadrature tag of the field,
\* bound to the specialized field; bound to a field tagged as nodal it is kept.
C19_QuadratureVariants ==
    (SpecializerRan /\ sexpr.expr.op.cls \in GenericClasses /\ sexpr.expr.field.k = "var"
        /\ TypeOf(sexpr.typedict, sexpr.expr.field).repr # "none") =>
        /\ sresult.raised = "none"
        /\ sresult.value.k = "bind"
        /\ sresult.value.field = sexpr.expr.field
        /\ IF TypeOf(sexpr.typedict, sexpr.expr.field).repr = "quad"
           THEN /\ sresult.value.op.cls = QuadratureVariantOfGeneric(sexpr.expr.op.cls)
                /\ sresult.value.op.quadrature_tag =
                      TypeOf(sexpr.typedict, sexpr.expr.field).quadrature_tag
           ELSE sresult.value.op = sexpr.expr.op

-----------------------------------------------------------------------------
(* Claims about GlobalToReferenceMapper *)

GlobalMapped ==
    /\ sresult # NotRun
    /\ sexpr.expr.op.cls \in {"MassOperator", "InverseMassOperator", "FaceMassOperator"}

\* The dimension the mapper works with.
MapperDim == IF sexpr.dim = -1 THEN sexpr.ambient_dim ELSE sexpr.dim

\* The field of the binding, rewritten by the mapper.
RewrittenField == GlobalToReferenceMapper(sexpr.ambient_dim, sexpr.dim, sexpr.expr.field)

\* C20: a global mass, inverse mass or face mass binding becomes the reference
\* operator of the same kind, with the dd_in and dd_out of the original
\* operator, applied to factor * rewritten field; the factor is taken at the
\* dd_in of the operator and is the area element for mass, one over the area
\* element for inverse mass and minus the area element of co-dimension one for
\* face mass.
C20_ReferenceOperators ==
    GlobalMapped =>
        /\ sresult.raised = "none"
        /\ sresult.value.k = "bind"
        /\ sresult.value.op.cls =
              (CASE sexpr.expr.op.cls = "MassOperator" -> "RefMassOperator"
                 [] sexpr.expr.op.cls = "InverseMassOperator" -> "RefInverseMassOperator"
                 [] sexpr.expr.op.cls = "FaceMassOperator" -> "RefFaceMassOperator")
        /\ sresult.value.op.dd_in = sexpr.expr.op.dd_in
        /\ sresult.value.op.dd_out = sexpr.expr.op.dd_out
        /\ sresult.value.field.k = "prod"
        /\ Len(sresult.value.field.children) = 2
        /\ sresult.value.field.children[2] = RewrittenField
        /\ sresult.value.field.children[1] =
              (CASE sexpr.expr.op.cls = "MassOperator" ->
                        area_element(sexpr.ambient_dim, MapperDim, sexpr.expr.op.dd_in)
                 [] sexpr.expr.op.cls = "InverseMassOperator" ->
                        Quotient(Constant(1),
                                 area_element(sexpr.ambient_dim, MapperDim,
                                              sexpr.expr.op.dd_in))
                 [] sexpr.expr.op.cls = "FaceMassOperator" ->
                        Product(<<Constant(-1),
                                  area_element(sexpr.ambient_dim, MapperDim - 1,
                                               sexpr.expr.op.dd_in)>>))

\* C20 witness: a face mass operator on the quadrature faces, bound to a mass
\* binding, was rewritten in two dimensions, and the field with it.
C20_Witness ==
    /\ GlobalMapped
    /\ sexpr.expr.op.cls = "FaceMassOperator"
    /\ sexpr.expr.op.dd_in = "all_faces_quad"
    /\ sexpr.ambient_dim = 2
    /\ sexpr.expr.field.k = "bind"
    /\ sresult.value.op.cls = "RefFaceMassOperator"
    /\ sresult.value.field.children[2].op.cls = "RefMassOperator"

\* The classes of the operators bound anywhere in an expression.
RECURSIVE OperatorClasses(_)
OperatorClasses(e) ==
    CASE e.k = "bind" -> {e.op.cls} \cup OperatorClasses(e.field)
      [] e.k \in {"prod", "sum"} ->
            UNION {OperatorClasses(e.children[i]) : i \in 1 .. Len(e.children)}
      [] e.k = "quot" -> OperatorClasses(e.num) \cup OperatorClasses(e.den)
      [] OTHER -> {}

DerivativeMapped ==
    /\ sresult # NotRun
    /\ sexpr.expr.op.cls \in {"DiffOperator", "StiffnessOperator", "MInvSTOperator"}

\* inverse metric derivative * reference operator of one reference axis
MetricTerm(ref_class, rst_axis, dd_in, operand) ==
    Product(<<inverse_metric_derivative(rst_axis, sexpr.expr.op.xyz_axis,
                                        sexpr.ambient_dim, MapperDim),
              OperatorBinding(DDOp(ref_class, dd_in, "default", rst_axis), operand)>>)

\* the sum of these terms over the reference axes
MetricSum(ref_class, dd_in, operand) ==
    IF MapperDim = 1 THEN MetricTerm(ref_class, 0, dd_in, operand)
    ELSE Sum([i \in 1 .. MapperDim |-> MetricTerm(ref_class, i - 1, dd_in, operand)])

GlobalClasses ==
    {"MassOperator", "InverseMassOperator", "FaceMassOperator", "StiffnessOperator",
     "DiffOperator", "StiffnessTOperator", "MInvSTOperator"}

\* C28: the output of GlobalToReferenceMapper holds no binding of a global-space
\* mass, inverse mass, face mass, stiffness, differentiation, stiffness-transpose
\* or MInvST operator at any depth, and the mapper applied to its output returns
\* it unchanged.
C28_NoGlobalOperatorLeft ==
    sresult # NotRun =>
        /\ OperatorClasses(sresult.value) \cap GlobalClasses = {}
        /\ GlobalToReferenceMapper(sexpr.ambient_dim, sexpr.dim, sresult.value)
              = sresult.value

\* C28 witness: a binding whose operand holds another global binding inside a
\* product or a sum was lowered in two dimensions, the inner binding with it.
C28_Witness ==
    /\ sresult # NotRun
    /\ sexpr.ambient_dim = 2
    /\ sexpr.expr.op.cls = "StiffnessTOperator"
    /\ sexpr.expr.field.k = "sum"
    /\ "MInvSTOperator" \in OperatorClasses(sexpr.expr.field)
    /\ {"RefStiffnessTOperator", "RefInverseMassOperator"}
          \subseteq OperatorClasses(sresult.value)

-----------------------------------------------------------------------------
(* Claims about the face mass entries of the cache *)

\* A request of reference_face_mass_matrix by consumer c returns in this step.
FaceMassReturns(c) ==
    /\ stack[c] # <<>>
    /\ stack[c][1].fn = "face_mass"
    /\ stack'[c] = <<>>
    /\ outcome'[c].status = "returned"

\* C30: the matrix a request reference_face_mass_matrix(face_group, vol_group,
\* dtype) returns was computed by the face mass routine for that dtype and for
\* groups of the keys of face_group and vol_group.
C30_FaceMassOfRequest ==
    [][\A c \in Consumers :
          FaceMassReturns(c) =>
              /\ outcome'[c].obj.fn = "face_mass"
              /\ outcome'[c].obj.dtype = stack[c][1].dtype
              /\ KeyOf("face_mass", outcome'[c].obj.args)
                    = KeyOf("face_mass", stack[c][1].args)]_vars

-----------------------------------------------------------------------------
(* Claims about the termination of the exchange *)

\* A rank that waits on a request has posted the send and the receive for every
\* connected rank.
PostsBeforeWaiting ==
    \A r \in Ranks :
        pc[r] \in {"recv_wait", "reassemble", "send_wait"} =>
            /\ Len(rbcomms[r]) = Len(connected[r])
            /\ \A j \in 1 .. Len(connected[r]) :
                  \A o \in {"Isend", "Irecv"} :
                     \E i \in issued :
                        /\ i.rank = r /\ i.round = round[r]
                        /\ i.op = o /\ i.peer = connected[r][j]

\* Every call of every rank has returned.
EveryCallReturned ==
    \A r \in Ranks : pc[r] = "idle" /\ round[r] = Len(calls) /\ ret[r].round = Len(calls)

-----------------------------------------------------------------------------
(* Claims about QuadratureDetector *)

\* The known statuses of the branches of an expression: no upsampler for a
\* field and for a diff, mass or flux binding, the upsampler of an upsampler
\* binding, nothing for a constant.
RECURSIVE KnownStatuses(_)
KnownStatuses(e) ==
    CASE e.k = "var" -> {[k |-> "None"]}
      [] e.k = "const" -> {}
      [] e.k = "bind" ->
            IF e.op.cls \in {"QuadratureGridUpsampler",
                             "QuadratureInteriorFacesGridUpsampler"}
            THEN {e.op} ELSE {[k |-> "None"]}
      [] OTHER -> UNION {KnownStatuses(e.children[i]) : i \in 1 .. Len(e.children)}

\* Every sum and product of the expression has a branch of known status.
RECURSIVE HasKnownBranches(_)
HasKnownBranches(e) ==
    e.k \in {"sum", "prod"} =>
        /\ KnownStatuses(e) # {}
        /\ \A i \in 1 .. Len(e.children) : HasKnownBranches(e.children[i])

DetectorRan == sresult # NotRun /\ sexpr.expr.k \in {"sum", "prod"}

\* C26: QuadratureDetector on a sum or product ignores the branches of unknown
\* status (constants); when the known statuses of the branches are all the
\* same it returns that status, and when two of them differ (two different
\* upsamplers, or an upsampler and the "no upsampler" of a field or of a diff,
\* mass or flux binding) it fails with an error.
C26_StatusesCombined ==
    DetectorRan =>
        /\ Cardinality(KnownStatuses(sexpr.expr)) >= 2 => sresult.raised # "none"
        /\ (Cardinality(KnownStatuses(sexpr.expr)) = 1 /\ HasKnownBranches(sexpr.expr)) =>
              /\ sresult.raised = "none"
              /\ sresult.value \in KnownStatuses(sexpr.expr)

\* C26 witness: the detection failed on a sum of an upsampler binding and a
\* product of a constant and a binding of another upsampler.
C26_Witness ==
    /\ DetectorRan
    /\ sexpr.expr.k = "sum"
    /\ sexpr.expr.children[1].k = "bind"
    /\ sexpr.expr.children[1].op.quadrature_tag = "q1"
    /\ sexpr.expr.children[2].k = "prod"
    /\ sexpr.expr.children[2].children[1].k = "const"
    /\ sexpr.expr.children[2].children[2].k = "bind"
    /\ sexpr.expr.children[2].children[2].op.quadrature_tag = "q2"
    /\ sresult.raised = "AssertionError"

-----------------------------------------------------------------------------
(* Claims about CommutativeConstantFoldingMapper *)

FoldingRan == sresult # NotRun /\ sexpr.expr.k = "bind"

\* The folded field of the binding.
FoldedField == CommutativeConstantFoldingMapper(sexpr.expr.field)

-----------------------------------------------------------------------------
(* Claims about DerivativeJoiner *)

JoinerRan == sresult # NotRun

\* The terms of an expression taken as a sum.
TermsOf(e) == IF e.k = "sum" THEN e.children ELSE <<e>>

\* The number of differentiation bindings of the operator o that the
\* expression holds as a term, as a term times scalar factors, or as a term of
\* such a sum; a binding in any other place is not counted.
RECURSIVE LinearDerivatives(_, _)
RECURSIVE LinearDerivativesOfTerms(_, _)
LinearDerivativesOfTerms(terms, o) ==
    IF terms = <<>> THEN 0
    ELSE LinearDerivatives(Head(terms), o) + LinearDerivativesOfTerms(Tail(terms), o)

LinearDerivatives(e, o) ==
    CASE e.k = "bind" -> IF e.op = o THEN 1 ELSE 0
      [] e.k = "sum" -> LinearDerivativesOfTerms(e.children, o)
      [] e.k = "prod" ->
            IF Cardinality({i \in 1 .. Len(e.children) : e.children[i].k # "const"}) = 1
            THEN LinearDerivativesOfTerms(e.children, o)
            ELSE 0
      [] OTHER -> 0

JoinedOperators == {[DiffOperator(0) EXCEPT !.xyz_axis = a] : a \in 0 .. 1}

\* The value of an expression for u = 3 and v = 5, every operator being a
\* multiplication by a number of its own and a quotient any fixed function of
\* its two sides.
RECURSIVE ValueOf(_)
RECURSIVE ValueOfTerms(_, _)
ValueOfTerms(kind, terms) ==
    IF terms = <<>> THEN (IF kind = "sum" THEN 0 ELSE 1)
    ELSE IF kind = "sum" THEN ValueOf(Head(terms)) + ValueOfTerms(kind, Tail(terms))
    ELSE ValueOf(Head(terms)) * ValueOfTerms(kind, Tail(terms))

ValueOf(e) ==
    CASE e.k = "var" -> IF e.name = "u" THEN 3 ELSE 5
      [] e.k = "const" -> e.n
      [] e.k \in {"sum", "prod"} -> ValueOfTerms(e.k, e.children)
      [] e.k = "quot" -> 19 * ValueOf(e.num) * ValueOf(e.num) + ValueOf(e.den)
      [] e.k = "bind" ->
            (IF e.op.cls = "DiffOperator" THEN 7 + 4 * e.op.xyz_axis ELSE 13)
            * ValueOf(e.field)

\* The terms of the result that are bindings of the operator o.
JoinedTerms(o) ==
    SelectSeq(TermsOf(sresult.value), LAMBDA t : t.k = "bind" /\ t.op = o)

\* C24: DerivativeJoiner on a sum puts the terms that are bindings of one
\* differentiation operator, scalar factors moved onto the operand, into one
\* binding of that operator to the sum of the operands, so that every
\* differentiation operator is bound at most once among the terms of the
\* result; a term that holds its derivatives in a product of several
\* non-scalar factors, in a quotient or under another operator is a term of
\* the result as it is; and the result has the value of the sum.
C24_DerivativesJoined ==
    JoinerRan =>
        /\ \A o \in JoinedOperators :
              /\ Len(JoinedTerms(o)) <= 1
              /\ LinearDerivatives(sexpr.expr, o) >= 1 =>
                    /\ Len(JoinedTerms(o)) = 1
                    /\ Len(TermsOf(JoinedTerms(o)[1].field))
                          = LinearDerivatives(sexpr.expr, o)
        /\ \A i \in 1 .. Len(sexpr.expr.children) :
              (\A o \in JoinedOperators : LinearDerivatives(sexpr.expr.children[i], o) = 0)
                  => \E j \in 1 .. Len(TermsOf(sresult.value)) :
                        TermsOf(sresult.value)[j] = sexpr.expr.children[i]
        /\ ValueOf(sresult.value) = ValueOf(sexpr.expr)

\* C24 witness: a derivative, twice the derivative of another field along the
\* same axis, and a product of a field and a derivative were summed; the
\* result is the derivative of a sum of two terms plus the product.
C24_Witness ==
    /\ JoinerRan
    /\ Len(sexpr.expr.children) = 3
    /\ sexpr.expr.children[1] = OperatorBinding(DiffOperator(0), Variable("v"))
    /\ sexpr.expr.children[2].k = "prod"
    /\ sexpr.expr.children[2].children[1] = Constant(2)
    /\ sexpr.expr.children[3].k = "prod"
    /\ sexpr.expr.children[3].children[1] = Variable("u")
    /\ sresult.value.k = "sum"
    /\ Len(sresult.value.children) = 2
    /\ sresult.value.children[1].k = "bind"
    /\ sresult.value.children[1].field.k = "sum"
    /\ sresult.value.children[2] = sexpr.expr.children[3]

-----------------------------------------------------------------------------
(* Claims about InverseMassContractor *)

\* The number of operator applications (bindings) in an expression.
RECURSIVE OperatorApplications(_)
RECURSIVE OperatorApplicationsIn(_)
OperatorApplicationsIn(terms) ==
    IF terms = <<>> THEN 0
    ELSE OperatorApplications(Head(terms)) + OperatorApplicationsIn(Tail(terms))

OperatorApplications(e) ==
    CASE e.k = "bind" -> 1 + OperatorApplications(e.field)
      [] e.k \in {"sum", "prod"} -> OperatorApplicationsIn(e.children)
      [] OTHER -> 0

\* C22: the output of InverseMassContractor on an inverse mass binding never
\* holds more than one operator application more than the binding: the
\* contracted expression is returned only if it introduces at most one
\* operator application beyond those it removes, the inverse mass operator
\* bound to the processed operand otherwise.
C22_AtMostOneExtraOperator ==
    sresult # NotRun =>
        OperatorApplications(sresult.value) <= OperatorApplications(sexpr.expr) + 1

\* An inverse mass operator is bound directly to a mass binding somewhere in
\* the expression.
RECURSIVE InverseMassOfMass(_)
InverseMassOfMass(e) ==
    CASE e.k = "bind" ->
            \/ /\ e.op.cls = "InverseMassOperator"
               /\ e.field.k = "bind"
               /\ e.field.op.cls = "MassOperator"
            \/ InverseMassOfMass(e.field)
      [] e.k \in {"sum", "prod"} ->
            \E i \in 1 .. Len(e.children) : InverseMassOfMass(e.children[i])
      [] OTHER -> FALSE

\* C29: the output of one pass of InverseMassContractor holds no inverse mass
\* operator bound directly to a mass binding, at any depth, and the pass
\* applied to its output returns the output.
C29_ContractionFixedPoint ==
    sresult # NotRun =>
        /\ ~InverseMassOfMass(sresult.value)
        /\ InverseMassContractor(sresult.value) = sresult.value

-----------------------------------------------------------------------------
(* Claims about FlopCounter *)

\* C25 as stated: an operator binding costs one unit more than its operand.
C25_BindingCostsOneUnit ==
    (sresult # NotRun /\ sexpr.expr.k = "bind") =>
        sresult.value = 1 + FlopCounter(sexpr.expr.field)

\* The arithmetic of an expression: one operation for every child but the
\* first of a sum or product, one for a quotient, one for a C function, and
\* none for a field, a constant or an operator.
RECURSIVE ArithmeticOperations(_)
RECURSIVE ArithmeticOperationsIn(_)
ArithmeticOperationsIn(terms) ==
    IF terms = <<>> THEN 0
    ELSE ArithmeticOperations(Head(terms)) + ArithmeticOperationsIn(Tail(terms))

ArithmeticOperations(e) ==
    IF e.k = "c_function" THEN 1
    ELSE IF e.k \in {"sum", "prod"}
    THEN Len(e.children) - 1 + ArithmeticOperationsIn(e.children)
    ELSE IF e.k = "quot" THEN 1 + ArithmeticOperations(e.num) + ArithmeticOperations(e.den)
    ELSE IF e.k = "bind" THEN ArithmeticOperations(e.field)
    ELSE 0

\* C25: FlopCounter is additive: a sum or product of n children costs n - 1
\* plus the costs of the children, a quotient 1 plus the costs of its two
\* sides, a C function 1, a field or constant 0, and an operator binding costs
\* what its operand costs, nothing being charged for the operator.
C25_AdditiveCost == sresult # NotRun => sresult.value = ArithmeticOperations(sexpr.expr)

\* C25 witness: the cost of a mass operator bound to a product of a field and
\* a C function is 2: one for the product and one for the function.
C25_Witness ==
    /\ sresult # NotRun
    /\ sexpr.expr.k = "bind"
    /\ sexpr.expr.op.cls = "MassOperator"
    /\ sexpr.expr.field.k = "prod"
    /\ sexpr.expr.field.children = <<Variable("u"), [k |-> "c_function", name |-> "sqrt"]>>
    /\ sresult.value = 2

====
